---- MODULE Spec2Model ----
(***************************************************************************)
(* The Intcode virtual machine of day13/src/intcode.rs: instruction        *)
(* decoding (Instruction::try_from), parameter resolution                  *)
(* (Intcode::load_parameters) and the execution loop (Intcode::execute).   *)
(*                                                                         *)
(* Memory is the HashMap `integers`: a function on a finite set of keys.   *)
(* `entry(k).or_insert(0)` adds the key k, so a read can enlarge the map.  *)
(*                                                                         *)
(* i64 and usize are 64 bits wide in the program.  The model keeps two's   *)
(* complement words of WordBits bits (the model checker's integers are     *)
(* narrower than 64 bits); every cast and every wrap is taken modulo       *)
(* 2^WordBits the way the program takes it modulo 2^64.                    *)
(*                                                                         *)
(* Arithmetic overflow depends on the build: with overflow checks (debug   *)
(* profile) `+`, `*` and `+=` panic, without them (release profile) they   *)
(* wrap.  overflow_checks is chosen in Init and never changes.             *)
(***************************************************************************)
EXTENDS Integers, Sequences, FiniteSets, TLC

VARIABLES
    vm,               \* the Intcode struct: integers, pointer, halted, relative_base
    overflow_checks,  \* build profile: TRUE = overflow panics, FALSE = overflow wraps
    image,            \* the program image the VM was constructed from
    pc,               \* "idle" (between calls), "running" (inside execute), "panicked"
    inputs,           \* execute's argument `inputs`
    input_index,      \* execute's local `input_index`
    output,           \* execute's local `output`
    instruction,      \* execute's local `instruction` of the last loop iteration
    parameters,       \* execute's local `parameters` of the last loop iteration
    result,           \* what the last execute call returned
    steps,            \* loop iterations done in the current call
    calls,            \* execute calls started so far
    hist,             \* history: VM at call start, how the calls ended, what the
                      \* iterations did; under SpecSplit also all inputs fed and all
                      \* outputs returned
    word,             \* the integer handed to Instruction::try_from (decoder specification)
    other,            \* a second Intcode value of the caller, not the one being run
    circuit,          \* day7: the AmplificationCircuit and the locals of its methods
    versions          \* the final memories of the older interpreters of day2, day5, day7

vars == <<vm, overflow_checks, image, pc, inputs, input_index, output,
          instruction, parameters, result, steps, calls, hist, word,
          other, circuit, versions>>

(***************************************************************************)
(* Bounds of the model.                                                    *)
(***************************************************************************)
WordBits == 16      \* width of the modelled i64 / usize
MaxCalls == 3       \* execute calls per behaviour
MaxSteps == 12      \* loop iterations per execute call
MaxInputs == 2      \* length of an input batch
MaxWord == 22399    \* largest word handed to the decoder specification
MaxNegWord == 1299  \* the decoder specification starts at the word -MaxNegWord

InputValues == {0, 8}

(***************************************************************************)
(* Machine integers.                                                       *)
(***************************************************************************)
I64Mod == 2^WordBits
I64Max == 2^(WordBits - 1) - 1
I64Min == -(2^(WordBits - 1))

\* the value an i64 operation leaves when it wraps
WrapI64(x) == ((x - I64Min) % I64Mod) + I64Min
\* whether the mathematical result x of an i64 operation overflows
OverflowsI64(x) == x < I64Min \/ x > I64Max
\* `x as usize`
AsUsize(x) == x % I64Mod
\* whether the mathematical result x of a usize operation overflows
OverflowsUsize(x) == x < 0 \/ x >= I64Mod
\* `x as u8`
AsU8(x) == x % 256
\* Rust's `%` and `/` on i64 truncate towards zero
RemT(a, b) == IF a >= 0 THEN a % b ELSE -((-a) % b)
DivT(a, b) == IF a >= 0 THEN a \div b ELSE -((-a) \div b)

(***************************************************************************)
(* enum Opcode, enum ParameterMode.                                        *)
(***************************************************************************)
Add == 1
Mult == 2
Input == 3
Output == 4
JumpIfTrue == 5
JumpIfFalse == 6
LessThan == 7
Equals == 8
RelativeBaseOffset == 9
Halt == 99

Position == 0
Immediate == 1
Relative == 2

\* faulty variant of OpcodeTryFrom: the enum lacks RelativeBaseOffset
OpcodeTryFrom_noRelativeBaseOffset(n) ==
    n \in {Add, Mult, Input, Output, JumpIfTrue, JumpIfFalse, LessThan,
           Equals, Halt}

\* Opcode::try_from(u8) succeeds exactly on the discriminants of the enum
OpcodeTryFrom(n) ==
    n \in {Add, Mult, Input, Output, JumpIfTrue, JumpIfFalse, LessThan,
           Equals, RelativeBaseOffset, Halt}

\* ParameterMode::try_from(u8) succeeds exactly on the discriminants of the enum
ParameterModeTryFrom(n) == n \in {Position, Immediate, Relative}

\* faulty variant of parameter_count: JumpIfTrue takes three parameters
parameter_count_jump3(opcode) ==
    CASE opcode = Add -> 3
      [] opcode = Mult -> 3
      [] opcode = Input -> 1
      [] opcode = Output -> 1
      [] opcode = JumpIfTrue -> 3
      [] opcode = JumpIfFalse -> 2
      [] opcode = LessThan -> 3
      [] opcode = Equals -> 3
      [] opcode = RelativeBaseOffset -> 1
      [] opcode = Halt -> 0

parameter_count(opcode) ==
    CASE opcode = Add -> 3
      [] opcode = Mult -> 3
      [] opcode = Input -> 1
      [] opcode = Output -> 1
      [] opcode = JumpIfTrue -> 2
      [] opcode = JumpIfFalse -> 2
      [] opcode = LessThan -> 3
      [] opcode = Equals -> 3
      [] opcode = RelativeBaseOffset -> 1
      [] opcode = Halt -> 0

\* faulty variant of target_parameter_index: Input has no write target
target_parameter_index_noinput(opcode) ==
    CASE opcode \in {Add, Mult, LessThan, Equals} -> {2}
      [] OTHER -> {}

\* Option<usize> as a set: {} is None, {i} is Some(i)
target_parameter_index(opcode) ==
    CASE opcode \in {Add, Mult, LessThan, Equals} -> {2}
      [] opcode = Input -> {0}
      [] OTHER -> {}

(***************************************************************************)
(* Instruction::try_from(i64).                                             *)
(***************************************************************************)
DecodeError == [ok |-> FALSE, opcode |-> 0, parameter_modes |-> <<>>]

\* faulty variant of ModeDigit: the three mode digits are read in reverse order
ModeDigit_reversed(integer, parameter_index) ==
    AsU8(DivT(RemT(DivT(integer, 100), 10^(3 - parameter_index)),
              10^(2 - parameter_index)))

\* (modes_integer % 10^(parameter_index + 1) / 10^parameter_index) as u8
ModeDigit(integer, parameter_index) ==
    AsU8(DivT(RemT(DivT(integer, 100), 10^(parameter_index + 1)),
              10^parameter_index))

\* variant of InstructionTryFrom that rejects IMMEDIATE mode on a write target
InstructionTryFrom_rejectImmediateTarget(integer) ==
    LET opcode == AsU8(RemT(integer, 100))
    IN  IF ~OpcodeTryFrom(opcode) THEN DecodeError
        ELSE LET n == parameter_count(opcode)
                 modes == [i \in 1..n |-> ModeDigit(integer, i - 1)]
             IN  IF \E i \in 1..n : ~ParameterModeTryFrom(modes[i])
                     \/ (modes[i] = Immediate
                         /\ (i - 1) \in target_parameter_index(opcode))
                 THEN DecodeError
                 ELSE [ok |-> TRUE, opcode |-> opcode, parameter_modes |-> modes]

InstructionTryFrom(integer) ==
    LET opcode == AsU8(RemT(integer, 100))
    IN  IF ~OpcodeTryFrom(opcode) THEN DecodeError
        ELSE LET n == parameter_count(opcode)
                 modes == [i \in 1..n |-> ModeDigit(integer, i - 1)]
             IN  IF \E i \in 1..n : ~ParameterModeTryFrom(modes[i])
                 THEN DecodeError
                 ELSE [ok |-> TRUE, opcode |-> opcode, parameter_modes |-> modes]

(***************************************************************************)
(* HashMap<usize, i64>.                                                    *)
(***************************************************************************)
\* integers.entry(k).or_insert(0): the map afterwards
EntryOrInsert(m, k) == IF k \in DOMAIN m THEN m ELSE m @@ (k :> 0)
\* integers.insert(k, v): the map afterwards
Insert(m, k, v) == [a \in DOMAIN m \cup {k} |-> IF a = k THEN v ELSE m[a]]
\* the value a read of address k yields (0 for a key that is not in the map)
Get(m, k) == IF k \in DOMAIN m THEN m[k] ELSE 0

\* Intcode::new on the map built by from_str / enumerate().collect()
\* faulty variant of New: the integers are numbered from 1
New_numbersFromOne(img) ==
    [integers |-> [a \in 1..Len(img) |-> img[a]],
     pointer |-> 0,
     halted |-> FALSE,
     relative_base |-> 0]

New(img) ==
    [integers |-> [a \in 0..(Len(img) - 1) |-> img[a + 1]],
     pointer |-> 0,
     halted |-> FALSE,
     relative_base |-> 0]

(***************************************************************************)
(* Intcode::load_parameters.  One parameter: the value the closure yields, *)
(* the map after its or_insert calls, and whether an addition overflowed.  *)
(***************************************************************************)
Loaded(value, integers, overflow) ==
    [value |-> value, integers |-> integers, overflow |-> overflow]

\* faulty variant of Dereference: a key that is not in the map is given the value -1
Dereference_absentIsMinusOne(integers, key, overflow) ==
    IF key \in DOMAIN integers
    THEN Loaded(integers[key], integers, overflow)
    ELSE Loaded(-1, integers @@ (key :> -1), overflow)

\* integer = *self.integers.entry(key).or_insert(0)
Dereference(integers, key, overflow) ==
    Loaded(Get(integers, key), EntryOrInsert(integers, key), overflow)

\* faulty variant of ResolveParameter: a RELATIVE write target is dereferenced
ResolveParameter_derefRelativeTarget(m1, integer, relative_base, mode, isTarget, overflow) ==
    CASE mode = Position /\ isTarget -> Loaded(integer, m1, overflow)
      [] mode = Position /\ ~isTarget -> Dereference(m1, AsUsize(integer), overflow)
      [] mode = Relative ->
           Dereference(m1, AsUsize(WrapI64(relative_base + integer)),
                       overflow \/ OverflowsI64(relative_base + integer))
      [] OTHER -> Loaded(integer, m1, overflow)

\* `match instruction.parameter_modes[parameter_index]` on the stored integer
ResolveParameter(m1, integer, relative_base, mode, isTarget, overflow) ==
    CASE mode = Position /\ isTarget -> Loaded(integer, m1, overflow)
      [] mode = Position /\ ~isTarget -> Dereference(m1, AsUsize(integer), overflow)
      [] mode = Relative /\ isTarget ->
           Loaded(WrapI64(integer + relative_base), m1,
                  overflow \/ OverflowsI64(integer + relative_base))
      [] mode = Relative /\ ~isTarget ->
           Dereference(m1, AsUsize(WrapI64(relative_base + integer)),
                       overflow \/ OverflowsI64(relative_base + integer))
      [] OTHER -> Loaded(integer, m1, overflow)

\* the closure of the map: the stored integer at pointer + parameter_index + 1, resolved
LoadParameter(integers, relative_base, pointer, instr, parameter_index) ==
    ResolveParameter(EntryOrInsert(integers, AsUsize(pointer + parameter_index + 1)),
                     Get(integers, AsUsize(pointer + parameter_index + 1)),
                     relative_base,
                     instr.parameter_modes[parameter_index + 1],
                     parameter_index \in target_parameter_index(instr.opcode),
                     OverflowsUsize(pointer + parameter_index + 1))

\* collect(): the values in order, the map after all closures, any overflow
Collect(one, rest) ==
    [parameters |-> <<one.value>> \o rest.parameters,
     integers |-> rest.integers,
     overflow |-> one.overflow \/ rest.overflow]

\* the map over 0..parameter_count, from parameter_index on, in order
RECURSIVE LoadParametersFrom(_, _, _, _, _)
LoadParametersAfter(one, relative_base, pointer, instr, parameter_index) ==
    Collect(one, LoadParametersFrom(one.integers, relative_base, pointer, instr,
                                    parameter_index + 1))

LoadParametersFrom(integers, relative_base, pointer, instr, parameter_index) ==
    IF parameter_index >= parameter_count(instr.opcode)
    THEN [parameters |-> <<>>, integers |-> integers, overflow |-> FALSE]
    ELSE LoadParametersAfter(
             LoadParameter(integers, relative_base, pointer, instr, parameter_index),
             relative_base, pointer, instr, parameter_index)

load_parameters(self, pointer, instr) ==
    LoadParametersFrom(self.integers, self.relative_base, pointer, instr, 0)

(***************************************************************************)
(* The arms of `match instruction.opcode` in Intcode::execute.  Each       *)
(* yields the VM after the arm, the input cursor, the output, the          *)
(* jump_pointer (a set: {} is None), whether the arm breaks out of the     *)
(* loop and whether an arithmetic operation of the arm overflowed.         *)
(***************************************************************************)
Effect(self, ii, out, jump, brk, ovf) ==
    [vm |-> self, input_index |-> ii, output |-> out, jump_pointer |-> jump,
     break |-> brk, overflow |-> ovf]

\* self.integers.insert(address as usize, value)
Store(self, address, value) ==
    [self EXCEPT !.integers = Insert(@, AsUsize(address), value)]

AddEffect(self, p, ii, out) ==
    Effect(Store(self, p[3], WrapI64(p[1] + p[2])), ii, out, {}, FALSE,
           OverflowsI64(p[1] + p[2]))

MultEffect(self, p, ii, out) ==
    Effect(Store(self, p[3], WrapI64(p[1] * p[2])), ii, out, {}, FALSE,
           OverflowsI64(p[1] * p[2]))

\* faulty variant of InputEffect: the starved Input moves the pointer before the break
InputEffect_starveAdvances(self, p, inp, ii, out) ==
    IF ii >= Len(inp)
    THEN Effect([self EXCEPT !.pointer = AsUsize(@ + 2)], ii, out, {}, TRUE, FALSE)
    ELSE Effect(Store(self, p[1], inp[ii + 1]), ii + 1, out, {}, FALSE, FALSE)

\* faulty variant of InputEffect: the starved Input stores 0 and goes on
InputEffect_starveStoresZero(self, p, inp, ii, out) ==
    IF ii >= Len(inp)
    THEN Effect(Store(self, p[1], 0), ii, out, {}, FALSE, FALSE)
    ELSE Effect(Store(self, p[1], inp[ii + 1]), ii + 1, out, {}, FALSE, FALSE)

InputEffect(self, p, inp, ii, out) ==
    IF ii >= Len(inp)
    THEN Effect(self, ii, out, {}, TRUE, FALSE)
    ELSE Effect(Store(self, p[1], inp[ii + 1]), ii + 1, out, {}, FALSE, FALSE)

\* faulty variant of OutputEffect: the value is put in front of the output
OutputEffect_pushFront(self, p, ii, out) ==
    Effect(self, ii, <<p[1]>> \o out, {}, FALSE, FALSE)

OutputEffect(self, p, ii, out) ==
    Effect(self, ii, Append(out, p[1]), {}, FALSE, FALSE)

JumpIfTrueEffect(self, p, ii, out) ==
    Effect(self, ii, out, IF p[1] # 0 THEN {AsUsize(p[2])} ELSE {}, FALSE, FALSE)

JumpIfFalseEffect(self, p, ii, out) ==
    Effect(self, ii, out, IF p[1] = 0 THEN {AsUsize(p[2])} ELSE {}, FALSE, FALSE)

\* faulty variant of LessThanEffect: less than or equal
LessThanEffect_orEqual(self, p, ii, out) ==
    Effect(Store(self, p[3], IF p[1] <= p[2] THEN 1 ELSE 0), ii, out, {},
           FALSE, FALSE)

LessThanEffect(self, p, ii, out) ==
    Effect(Store(self, p[3], IF p[1] < p[2] THEN 1 ELSE 0), ii, out, {},
           FALSE, FALSE)

\* faulty variant of EqualsEffect: the 0 is stored at the address the second parameter gives
EqualsEffect_zeroAtSecond(self, p, ii, out) ==
    Effect(IF p[1] = p[2] THEN Store(self, p[3], 1) ELSE Store(self, p[2], 0),
           ii, out, {}, FALSE, FALSE)

EqualsEffect(self, p, ii, out) ==
    Effect(Store(self, p[3], IF p[1] = p[2] THEN 1 ELSE 0), ii, out, {},
           FALSE, FALSE)

\* faulty variant of RelativeBaseOffsetEffect: the parameter replaces the relative base
RelativeBaseOffsetEffect_assigns(self, p, ii, out) ==
    Effect([self EXCEPT !.relative_base = p[1]], ii, out, {}, FALSE, FALSE)

RelativeBaseOffsetEffect(self, p, ii, out) ==
    Effect([self EXCEPT !.relative_base = WrapI64(@ + p[1])], ii, out, {},
           FALSE, OverflowsI64(self.relative_base + p[1]))

\* faulty variant of HaltEffect: the pointer moves past the Halt
HaltEffect_advances(self, ii, out) ==
    Effect([self EXCEPT !.halted = TRUE, !.pointer = AsUsize(@ + 1)], ii, out,
           {}, TRUE, FALSE)

\* faulty variant of HaltEffect: halted is not set
HaltEffect_noFlag(self, ii, out) ==
    Effect(self, ii, out, {}, TRUE, FALSE)

HaltEffect(self, ii, out) ==
    Effect([self EXCEPT !.halted = TRUE], ii, out, {}, TRUE, FALSE)

OpcodeEffect(self, opcode, p, inp, ii, out) ==
    CASE opcode = Add -> AddEffect(self, p, ii, out)
      [] opcode = Mult -> MultEffect(self, p, ii, out)
      [] opcode = Input -> InputEffect(self, p, inp, ii, out)
      [] opcode = Output -> OutputEffect(self, p, ii, out)
      [] opcode = JumpIfTrue -> JumpIfTrueEffect(self, p, ii, out)
      [] opcode = JumpIfFalse -> JumpIfFalseEffect(self, p, ii, out)
      [] opcode = LessThan -> LessThanEffect(self, p, ii, out)
      [] opcode = Equals -> EqualsEffect(self, p, ii, out)
      [] opcode = RelativeBaseOffset -> RelativeBaseOffsetEffect(self, p, ii, out)
      [] opcode = Halt -> HaltEffect(self, ii, out)

\* faulty variant of AdvancePointer: the parameter count is taken from the
\* word that is at the pointer after the instruction's own write
AdvancePointer_recount(self, jump_pointer, opcode) ==
    IF jump_pointer # {}
    THEN [self EXCEPT !.pointer = CHOOSE j \in jump_pointer : TRUE]
    ELSE [self EXCEPT !.pointer =
              AsUsize(@ + 1 + IF InstructionTryFrom(Get(self.integers, self.pointer)).ok
                              THEN parameter_count(
                                       InstructionTryFrom(Get(self.integers, self.pointer)).opcode)
                              ELSE 0)]

\* match jump_pointer { Some(j) => pointer = j, None => pointer += 1 + count }
AdvancePointer(self, jump_pointer, opcode) ==
    IF jump_pointer # {}
    THEN [self EXCEPT !.pointer = CHOOSE j \in jump_pointer : TRUE]
    ELSE [self EXCEPT !.pointer = AsUsize(@ + 1 + parameter_count(opcode))]

AdvanceOverflows(self, jump_pointer, opcode) ==
    jump_pointer = {} /\ OverflowsUsize(self.pointer + 1 + parameter_count(opcode))

(***************************************************************************)
(* One iteration of the loop of Intcode::execute.  ctl tells how the       *)
(* iteration ends: "continue" (next iteration), "break" (the loop is left  *)
(* and Ok(output) returned), "err" (the `?` returns the decode error) or   *)
(* "panic" (an overflow in a build with overflow checks).                  *)
(***************************************************************************)
Iterated(ctl, self, ii, out, instr, p) ==
    [ctl |-> ctl, vm |-> self, input_index |-> ii, output |-> out,
     instruction |-> instr, parameters |-> p]

\* after the match: panic, break, or the pointer update and the next round
ExecAfterMatch(self, instr, p, eff, ii, out, checks, loadOverflow) ==
    IF checks /\ (loadOverflow \/ eff.overflow
                  \/ (~eff.break
                      /\ AdvanceOverflows(eff.vm, eff.jump_pointer, instr.opcode)))
    THEN Iterated("panic", self, ii, out, instr, p)
    ELSE IF eff.break
    THEN Iterated("break", eff.vm, eff.input_index, eff.output, instr, p)
    ELSE Iterated("continue", AdvancePointer(eff.vm, eff.jump_pointer, instr.opcode),
                  eff.input_index, eff.output, instr, p)

\* after load_parameters: the match on the opcode
ExecAfterLoad(self, instr, lp, inp, ii, out, checks) ==
    ExecAfterMatch(self, instr, lp.parameters,
                   OpcodeEffect([self EXCEPT !.integers = lp.integers], instr.opcode,
                                lp.parameters, inp, ii, out),
                   ii, out, checks, lp.overflow)

\* faulty variant of ExecAfterDecode: the pointer moves past the undecodable word
ExecAfterDecode_skipsBadWord(self, instr, inp, ii, out, checks) ==
    IF ~instr.ok
    THEN Iterated("err", [self EXCEPT !.pointer = AsUsize(@ + 1)], ii, out, instr, <<>>)
    ELSE ExecAfterLoad(self, instr, load_parameters(self, self.pointer, instr),
                       inp, ii, out, checks)

\* faulty variant of ExecAfterDecode: the failed call leaves the pointer at 0
ExecAfterDecode_errRewinds(self, instr, inp, ii, out, checks) ==
    IF ~instr.ok
    THEN Iterated("err", [self EXCEPT !.pointer = 0], ii, out, instr, <<>>)
    ELSE ExecAfterLoad(self, instr, load_parameters(self, self.pointer, instr),
                       inp, ii, out, checks)

\* after Instruction::try_from(..): the `?`, then load_parameters
ExecAfterDecode(self, instr, inp, ii, out, checks) ==
    IF ~instr.ok
    THEN Iterated("err", self, ii, out, instr, <<>>)
    ELSE ExecAfterLoad(self, instr, load_parameters(self, self.pointer, instr),
                       inp, ii, out, checks)

\* after self.integers.entry(self.pointer).or_insert(0)
ExecAfterFetch(self, fetched, inp, ii, out, checks) ==
    ExecAfterDecode(self, InstructionTryFrom(fetched), inp, ii, out, checks)

\* faulty variant of ExecStep: the instruction is decoded from the program
\* image as loaded, not from the memory as it is now
ExecStep_fetchesFromImage(self, inp, ii, out, checks) ==
    ExecAfterFetch([self EXCEPT !.integers = EntryOrInsert(@, self.pointer)],
                   Get(New(image).integers, self.pointer), inp, ii, out, checks)

ExecStep(self, inp, ii, out, checks) ==
    ExecAfterFetch([self EXCEPT !.integers = EntryOrInsert(@, self.pointer)],
                   Get(self.integers, self.pointer), inp, ii, out, checks)

\* the whole of Intcode::execute, cut off after `fuel` iterations
RECURSIVE ExecLoop(_, _, _, _, _, _)
ExecLoopAfter(s, inp, checks, fuel) ==
    CASE s.ctl = "continue" ->
           ExecLoop(s.vm, inp, s.input_index, s.output, checks, fuel - 1)
      [] s.ctl = "break" -> [kind |-> "Ok", output |-> s.output, vm |-> s.vm]
      [] s.ctl = "err" -> [kind |-> "Err", output |-> <<>>, vm |-> s.vm]
      [] s.ctl = "panic" -> [kind |-> "Panic", output |-> <<>>, vm |-> s.vm]

ExecLoop(self, inp, ii, out, checks, fuel) ==
    IF fuel = 0
    THEN [kind |-> "Diverged", output |-> <<>>, vm |-> self]
    ELSE ExecLoopAfter(ExecStep(self, inp, ii, out, checks), inp, checks, fuel)

execute(self, inp, checks, fuel) == ExecLoop(self, inp, 0, <<>>, checks, fuel)

(***************************************************************************)
(* Program images: the images of the unit tests of intcode.rs that fit     *)
(* the word width and the iteration bound, and images that reach the       *)
(* corners of the decoder, of load_parameters and of the loop.             *)
(***************************************************************************)
Programs ==
    { <<1, 0, 0, 0, 99>>,                                   \* executes_intcodes
      <<2, 4, 4, 5, 99, 0>>,
      <<1, 1, 1, 4, 99, 5, 6, 0, 99>>,
      <<3, 9, 8, 9, 10, 9, 4, 9, 99, -1, 8>>,               \* less_and_equal_outputs
      <<3, 9, 7, 9, 10, 9, 4, 9, 99, -1, 8>>,
      <<3, 3, 1108, -1, 8, 3, 4, 3, 99>>,
      <<3, 3, 1107, -1, 8, 3, 4, 3, 99>>,
      <<3, 12, 6, 12, 15, 1, 13, 14, 13, 4, 13, 99, -1, 0, 1, 9>>,  \* jump_outputs
      <<3, 3, 1105, -1, 9, 1101, 0, 0, 12, 4, 12, 99, 1>>,
      <<3, 15, 3, 16, 1002, 16, 10, 16, 1, 16, 15, 15, 4, 15, 99, 0, 0>>,  \* multiple_input_intcode
      <<109, 1, 203, 2, 204, 2, 99>>,                       \* relative_target_parameters
      <<3, 0, 4, 0, 99>>,                                   \* echo
      <<4, 0, 3, 0, 0>>,                                    \* output, input, undecodable word
      <<4, 0, 3, 1, 4, 1, 3, 9, 99>>,                       \* two outputs, two inputs
      <<3, 20, 4, 20, 1105, 1, 0>>,                         \* echoes every input, never halts
      <<11101, 5, 6, 7, 99>>,                               \* immediate write target of Add
      <<103, 7, 4, 7, 99>>,                                 \* immediate write target of Input
      <<3>>,                                                \* Input as the last word of the image
      <<9, 0, 203, 0, 22201, 1, -1, 5, 204, 5, 99>>,        \* relative reads and writes
      <<1102, 256, 256, 0, 99>>,                            \* product beyond the word range
      <<4, -1, 99>>,                                        \* read of a negative address
      <<1105, 1, 0>>,                                       \* jumps to itself for ever
      <<301, 0, 0, 0, 99>>,                                 \* mode digit 3
      <<98>>,                                               \* no such opcode
      <<-1>>,
      <<99, 4, 0, 99>>,                                     \* words after the Halt
      <<1105, 1, -1>>,                                      \* jump to a negative target
      <<1101, 4, 0, -2, 1105, 1, -2>>,                      \* runs off the top of the address space
      <<1101, 5, 6, -1, 4, -1, 99>>,                        \* write, then read, of a negative address
      <<109, -5, 204, 2, 21101, 7, 0, 1, 204, 1, 99>>,      \* relative addresses below zero
      <<109, 3, 3, 0, 109, 4, 203, 5, 204, 5, 99>>,         \* two adjustments of the relative base
      <<4, 50, 1101, 1, 2, 60, 4, 60, 99>>,                 \* cells beyond the image
      <<1101, 4, 0, 0, 99>>,                                \* Add overwrites its own opcode with an Output
      <<3, 2, 0>>,                                          \* the input is stored where the pointer goes next
      <<3, 3, 1105, 0, 6, 0, 99>>,                          \* the input decides whether a data word is executed
      <<1101, 32767, 1, 0, 4, 0, 99>>,                      \* sum beyond the word range
      <<109, 32767, 109, 1, 204, 0, 99>>,                   \* relative base beyond the word range
      <<109, 5, 3, 0, 204, -5, 0>> }                        \* adjustment, input, output, undecodable word

\* the batches a caller passes to execute
RECURSIVE SeqsUpTo(_, _)
SeqsUpTo(S, n) ==
    IF n = 0 THEN {<<>>}
    ELSE LET shorter == SeqsUpTo(S, n - 1)
         IN  shorter \cup {Append(q, x) : q \in shorter, x \in S}

InputBatches == SeqsUpTo(InputValues, MaxInputs)

NoResult == [kind |-> "None", output |-> <<>>]

\* the caller holds no second Intcode value, no circuit, no older interpreter
NoInstance == [held |-> FALSE]
NoCircuit == [built |-> FALSE]
NoVersions == [ran |-> {}]

\* the history of a VM no call was made on; track: whether inputs and outputs are recorded
NoHistory(self, track) ==
    [pre |-> self, pre_why |-> "new", why |-> "new", track |-> track,
     fed |-> <<>>, outs |-> <<>>,
     inputs_done |-> 0, emitted |-> <<>>, adjusted |-> 0, written |-> {},
     solo |-> [kind |-> "None", output |-> <<>>, vm |-> self],
     last |-> self]

\* the history once a call with the batch inp has started; solo: when the
\* caller holds a second Intcode value, what the calls made on this one alone
\* give, whatever was done with the other one in between
CallHistory(inp) ==
    [hist EXCEPT !.pre = vm, !.pre_why = hist.why, !.why = "running",
                 !.fed = IF hist.track THEN @ \o inp ELSE @,
                 !.inputs_done = 0, !.emitted = <<>>, !.last = vm,
                 !.solo = IF other.held
                          THEN execute(@.vm, inp, overflow_checks, MaxSteps)
                          ELSE @]

\* the address the instruction of an iteration stored to, as a set
WrittenBy(instr, p) ==
    {AsUsize(p[t + 1]) : t \in target_parameter_index(instr.opcode)}

\* the history once an iteration s has gone round the loop: the INPUTs
\* executed and the values of the OUTPUTs executed in this call, the sum of
\* the relative base adjustments and the addresses stored to since
\* construction, the VM as the last instruction executed to its end left it
StepHistory(s) ==
    [hist EXCEPT
        !.inputs_done = IF s.instruction.opcode = Input THEN @ + 1 ELSE @,
        !.emitted = IF s.instruction.opcode = Output
                    THEN Append(@, s.parameters[1]) ELSE @,
        !.adjusted = IF s.instruction.opcode = RelativeBaseOffset
                     THEN @ + s.parameters[1] ELSE @,
        !.written = @ \cup WrittenBy(s.instruction, s.parameters),
        !.last = s.vm]

\* the history once a call has returned Ok(out)
ReturnHistory(why, out) ==
    [hist EXCEPT !.why = why, !.outs = IF hist.track THEN @ \o out ELSE @]

\* calls a behaviour may make: two when the history records the split of an input sequence
CallBudget == IF hist.track THEN 2 ELSE MaxCalls

(***************************************************************************)
(* The VM driven by a caller: construction, then execute calls.            *)
(***************************************************************************)
Init ==
    /\ image \in Programs
    /\ vm = New(image)
    /\ overflow_checks \in BOOLEAN
    /\ pc = "idle"
    /\ inputs = <<>>
    /\ input_index = 0
    /\ output = <<>>
    /\ instruction = DecodeError
    /\ parameters = <<>>
    /\ result = NoResult
    /\ steps = 0
    /\ calls = 0
    /\ hist = NoHistory(vm, FALSE)
    /\ word = 0
    /\ other = NoInstance
    /\ circuit = NoCircuit
    /\ versions = NoVersions

\* faulty variant of Call: the input cursor is kept from the call before
Call_keepsCursor(inp) ==
    /\ pc = "idle"
    /\ calls < CallBudget
    /\ pc' = "running"
    /\ inputs' = inp
    /\ input_index' = input_index
    /\ output' = <<>>
    /\ result' = NoResult
    /\ steps' = 0
    /\ calls' = calls + 1
    /\ hist' = CallHistory(inp)
    /\ UNCHANGED <<vm, overflow_checks, image, instruction, parameters, word,
                   other, circuit, versions>>

\* faulty variant of Call: `output` is kept from the call before
Call_keepsOutput(inp) ==
    /\ pc = "idle"
    /\ calls < CallBudget
    /\ pc' = "running"
    /\ inputs' = inp
    /\ input_index' = 0
    /\ output' = output
    /\ result' = NoResult
    /\ steps' = 0
    /\ calls' = calls + 1
    /\ hist' = CallHistory(inp)
    /\ UNCHANGED <<vm, overflow_checks, image, instruction, parameters, word,
                   other, circuit, versions>>

\* entry of Intcode::execute(inputs): `input_index = 0`, `output = vec![]`
Call(inp) ==
    /\ pc = "idle"
    /\ calls < CallBudget
    /\ pc' = "running"
    /\ inputs' = inp
    /\ input_index' = 0
    /\ output' = <<>>
    /\ result' = NoResult
    /\ steps' = 0
    /\ calls' = calls + 1
    /\ hist' = CallHistory(inp)
    /\ UNCHANGED <<vm, overflow_checks, image, instruction, parameters, word,
                   other, circuit, versions>>

\* an iteration that ends with the loop going round again
Continue(opcode) ==
    /\ \E s \in {ExecStep(vm, inputs, input_index, output, overflow_checks)} :
          /\ s.ctl = "continue"
          /\ s.instruction.opcode = opcode
          /\ vm' = s.vm
          /\ input_index' = s.input_index
          /\ output' = s.output
          /\ instruction' = s.instruction
          /\ parameters' = s.parameters
          /\ hist' = StepHistory(s)
    /\ steps' = steps + 1
    /\ UNCHANGED <<overflow_checks, image, pc, inputs, result, calls, word,
                   other, circuit, versions>>

\* an iteration that breaks out of the loop: execute returns Ok(output)
Break(opcode, why) ==
    /\ \E s \in {ExecStep(vm, inputs, input_index, output, overflow_checks)} :
          /\ s.ctl = "break"
          /\ s.instruction.opcode = opcode
          /\ vm' = s.vm
          /\ input_index' = s.input_index
          /\ output' = s.output
          /\ instruction' = s.instruction
          /\ parameters' = s.parameters
          /\ result' = [kind |-> "Ok", output |-> s.output]
          /\ hist' = ReturnHistory(why, s.output)
    /\ steps' = steps + 1
    /\ pc' = "idle"
    /\ UNCHANGED <<overflow_checks, image, inputs, calls, word,
                   other, circuit, versions>>

\* the call is inside the loop and the model's iteration bound is not used up
Running == pc = "running" /\ steps < MaxSteps

StepAdd == Running /\ Continue(Add)
StepMult == Running /\ Continue(Mult)
StepInput == Running /\ Continue(Input)
StepInputStarved == Running /\ Break(Input, "starved")
StepOutput == Running /\ Continue(Output)
StepJumpIfTrue == Running /\ Continue(JumpIfTrue)
StepJumpIfFalse == Running /\ Continue(JumpIfFalse)
StepLessThan == Running /\ Continue(LessThan)
StepEquals == Running /\ Continue(Equals)
StepRelativeBaseOffset == Running /\ Continue(RelativeBaseOffset)
StepHalt == Running /\ Break(Halt, "halt")

\* faulty variant of StepDecodeError: the failed call undoes what it did to the VM
StepDecodeError_rollsBack ==
    /\ Running
    /\ \E s \in {ExecStep(vm, inputs, input_index, output, overflow_checks)} :
          /\ s.ctl = "err"
          /\ vm' = hist.pre
          /\ instruction' = s.instruction
          /\ parameters' = s.parameters
    /\ steps' = steps + 1
    /\ pc' = "idle"
    /\ result' = [kind |-> "Err", output |-> <<>>]
    /\ hist' = [hist EXCEPT !.why = "err"]
    /\ UNCHANGED <<overflow_checks, image, inputs, input_index, output, calls, word,
                   other, circuit, versions>>

\* Instruction::try_from(..)? fails: execute returns the error, output is dropped
StepDecodeError ==
    /\ Running
    /\ \E s \in {ExecStep(vm, inputs, input_index, output, overflow_checks)} :
          /\ s.ctl = "err"
          /\ vm' = s.vm
          /\ instruction' = s.instruction
          /\ parameters' = s.parameters
    /\ steps' = steps + 1
    /\ pc' = "idle"
    /\ result' = [kind |-> "Err", output |-> <<>>]
    /\ hist' = [hist EXCEPT !.why = "err"]
    /\ UNCHANGED <<overflow_checks, image, inputs, input_index, output, calls, word,
                   other, circuit, versions>>

\* an overflow in a build with overflow checks: the thread panics
StepPanic ==
    /\ Running
    /\ ExecStep(vm, inputs, input_index, output, overflow_checks).ctl = "panic"
    /\ pc' = "panicked"
    /\ hist' = [hist EXCEPT !.why = "panic"]
    /\ UNCHANGED <<vm, overflow_checks, image, inputs, input_index, output,
                   instruction, parameters, result, steps, calls, word,
                   other, circuit, versions>>

Next ==
    \/ \E inp \in InputBatches : Call(inp)
    \/ StepAdd
    \/ StepMult
    \/ StepInput
    \/ StepInputStarved
    \/ StepOutput
    \/ StepJumpIfTrue
    \/ StepJumpIfFalse
    \/ StepLessThan
    \/ StepEquals
    \/ StepRelativeBaseOffset
    \/ StepHalt
    \/ StepDecodeError
    \/ StepPanic

Spec == Init /\ [][Next]_vars

(***************************************************************************)
(* The same VM and calls, limited to two calls, with the history recording *)
(* every input fed and every output returned: an input sequence split      *)
(* into two batches.                                                       *)
(***************************************************************************)
InitSplit ==
    /\ image \in Programs
    /\ vm = New(image)
    /\ overflow_checks \in BOOLEAN
    /\ pc = "idle"
    /\ inputs = <<>>
    /\ input_index = 0
    /\ output = <<>>
    /\ instruction = DecodeError
    /\ parameters = <<>>
    /\ result = NoResult
    /\ steps = 0
    /\ calls = 0
    /\ hist = NoHistory(vm, TRUE)
    /\ word = 0
    /\ other = NoInstance
    /\ circuit = NoCircuit
    /\ versions = NoVersions

SpecSplit == InitSplit /\ [][Next]_vars

(***************************************************************************)
(* The decoder on its own: Instruction::try_from applied to one word.      *)
(***************************************************************************)
InitDecode ==
    /\ word \in (0 - MaxNegWord)..MaxWord
    /\ image = <<word>>
    /\ vm = New(image)
    /\ overflow_checks = FALSE
    /\ pc = "fetched"
    /\ inputs = <<>>
    /\ input_index = 0
    /\ output = <<>>
    /\ instruction = DecodeError
    /\ parameters = <<>>
    /\ result = NoResult
    /\ steps = 0
    /\ calls = 0
    /\ hist = NoHistory(vm, FALSE)
    /\ other = NoInstance
    /\ circuit = NoCircuit
    /\ versions = NoVersions

\* Instruction::try_from(word)
TryFromWord ==
    /\ pc = "fetched"
    /\ instruction' = InstructionTryFrom(word)
    /\ pc' = "decoded"
    /\ UNCHANGED <<vm, overflow_checks, image, inputs, input_index, output,
                   parameters, result, steps, calls, hist, word,
                   other, circuit, versions>>

NextDecode == TryFromWord

SpecDecode == InitDecode /\ [][NextDecode]_vars

(***************************************************************************)
(* Two Intcode values in the hands of one caller: the one execute runs on  *)
(* (vm) and a second one that rests (other), made by clone() or by a       *)
(* second construction; the caller may turn to the other one between calls.*)
(***************************************************************************)
\* images the first value is constructed from: larger_part2_intcode, which
\* the tests run on clones, and images that adjust the relative base, fail to
\* decode and overflow
InstancePrograms ==
    { <<3, 21, 1008, 21, 8, 20, 1005, 20, 22, 107, 8, 21, 20, 1006, 20, 31,
        1106, 0, 36, 98, 0, 0, 1002, 21, 125, 20, 4, 20, 1105, 1, 46, 104,
        999, 1105, 1, 46, 1101, 1000, 1, 20, 4, 20, 1105, 1, 46, 98, 99>>,
      <<109, 3, 3, 0, 109, 4, 203, 5, 204, 5, 99>>,
      <<4, 0, 3, 0, 0>>,
      <<1102, 256, 256, 0, 99>>,
      <<1101, 32767, 1, 0, 4, 0, 99>> }

\* images the second value is constructed from
SecondPrograms ==
    { <<3, 0, 4, 0, 99>>,
      <<109, 3, 3, 0, 109, 4, 203, 5, 204, 5, 99>> }

\* faulty variant of Clone: the copy refers to the memory of the value it was made from
Clone_sharesIntegers(self) ==
    [intcode |-> [integers |-> self.integers, pointer |-> self.pointer,
                  halted |-> self.halted, relative_base |-> self.relative_base],
     shares |-> TRUE]

\* #[derive(Clone)] of Intcode: every field is cloned, and the clone of a
\* HashMap is a new map holding the same entries; shares: whether the copy
\* refers to the memory of the value it was made from
Clone(self) ==
    [intcode |-> [integers |-> self.integers, pointer |-> self.pointer,
                  halted |-> self.halted, relative_base |-> self.relative_base],
     shares |-> FALSE]

\* the second value as the caller finds it: memory written through the
\* running value shows in it exactly when the two share the memory
Resting ==
    IF other.shares THEN [other.intcode EXCEPT !.integers = vm.integers]
    ELSE other.intcode

\* the role of the value the caller turns to becomes the role of the one it leaves
OtherRole(role) ==
    CASE role = "original" -> "clone"
      [] role = "clone" -> "original"
      [] role = "second" -> "first"
      [] role = "first" -> "second"

\* the locals of execute are gone between calls
NoCallInProgress ==
    /\ inputs' = <<>>
    /\ input_index' = 0
    /\ output' = <<>>
    /\ instruction' = DecodeError
    /\ parameters' = <<>>
    /\ result' = NoResult
    /\ steps' = 0

InitInstances ==
    /\ image \in InstancePrograms
    /\ vm = New(image)
    /\ overflow_checks \in BOOLEAN
    /\ pc = "idle"
    /\ inputs = <<>>
    /\ input_index = 0
    /\ output = <<>>
    /\ instruction = DecodeError
    /\ parameters = <<>>
    /\ result = NoResult
    /\ steps = 0
    /\ calls = 0
    /\ hist = NoHistory(vm, FALSE)
    /\ word = 0
    /\ other = NoInstance
    /\ circuit = NoCircuit
    /\ versions = NoVersions

\* `let mut copy = intcode.clone();`: the caller goes on with the copy, the original rests
MakeClone ==
    /\ pc = "idle"
    /\ ~other.held
    /\ \E c \in {Clone(vm)} :
          /\ vm' = c.intcode
          /\ other' = [held |-> TRUE, intcode |-> vm, shares |-> c.shares,
                       role |-> "original", hist |-> NoHistory(vm, FALSE)]
    /\ hist' = NoHistory(vm, FALSE)
    /\ NoCallInProgress
    /\ UNCHANGED <<overflow_checks, image, pc, calls, word, circuit, versions>>

\* `intcode.clone().execute(..)` once more: the copy run so far is dropped,
\* the caller goes on with a new copy of the resting original
CloneAgain ==
    /\ pc = "idle"
    /\ other.held
    /\ other.role = "original"
    /\ \E c \in {Clone(Resting)} :
          /\ vm' = c.intcode
          /\ other' = [other EXCEPT !.intcode = Resting, !.shares = c.shares]
    /\ hist' = other.hist
    /\ NoCallInProgress
    /\ UNCHANGED <<overflow_checks, image, pc, calls, word, circuit, versions>>

\* a second Intcode::new(..) of the same caller: the new value rests
Construct(img) ==
    /\ pc = "idle"
    /\ ~other.held
    /\ other' = [held |-> TRUE, intcode |-> New(img), shares |-> FALSE,
                 role |-> "second", hist |-> NoHistory(New(img), FALSE)]
    /\ hist' = NoHistory(vm, FALSE)
    /\ NoCallInProgress
    /\ UNCHANGED <<vm, overflow_checks, image, pc, calls, word, circuit, versions>>

\* faulty variant of Switch: relative_base is one register of all values
Switch_keepsRelativeBase ==
    /\ pc = "idle"
    /\ other.held
    /\ vm' = [Resting EXCEPT !.relative_base = vm.relative_base]
    /\ other' = [other EXCEPT !.intcode = vm, !.hist = hist, !.role = OtherRole(@)]
    /\ hist' = other.hist
    /\ NoCallInProgress
    /\ UNCHANGED <<overflow_checks, image, pc, calls, word, circuit, versions>>

\* between two calls the caller turns to its other value: the next execute
\* runs on it, with the fields it had when the caller left it
Switch ==
    /\ pc = "idle"
    /\ other.held
    /\ vm' = Resting
    /\ other' = [other EXCEPT !.intcode = vm, !.hist = hist, !.role = OtherRole(@)]
    /\ hist' = other.hist
    /\ NoCallInProgress
    /\ UNCHANGED <<overflow_checks, image, pc, calls, word, circuit, versions>>

\* the batches handed to execute when the caller holds two values
InstanceBatches == SeqsUpTo(InputValues, 1)

NextInstances ==
    \/ \E inp \in InstanceBatches : Call(inp)
    \/ StepAdd
    \/ StepMult
    \/ StepInput
    \/ StepInputStarved
    \/ StepOutput
    \/ StepJumpIfTrue
    \/ StepJumpIfFalse
    \/ StepLessThan
    \/ StepEquals
    \/ StepRelativeBaseOffset
    \/ StepHalt
    \/ StepDecodeError
    \/ StepPanic
    \/ MakeClone
    \/ CloneAgain
    \/ \E img \in SecondPrograms : Construct(img)
    \/ Switch

SpecInstances == InitInstances /\ [][NextInstances]_vars

(***************************************************************************)
(* The older interpreters: run_intcode of day2, Intcode::execute of day5   *)
(* and of day7.  Their memory is a Vec<i32>, here a sequence (index i of   *)
(* the Vec is element i + 1), their pointer a local that starts at 0.      *)
(* The i32 is narrower than the i64 by the same four bits at every scale.  *)
(***************************************************************************)
I32Bits == WordBits - 4
I32Max == 2^(I32Bits - 1) - 1
I32Min == -(2^(I32Bits - 1))
\* the value an i32 operation leaves when it wraps
WrapI32(x) == ((x - I32Min) % 2^I32Bits) + I32Min
\* whether the mathematical result x of an i32 operation overflows
OverflowsI32(x) == x < I32Min \/ x > I32Max

\* `v[i]` of a Vec does not panic
InVec(v, i) == i >= 0 /\ i < Len(v)
\* `v[i]`
At(v, i) == v[i + 1]
\* `v[i] = x`
VecSet(v, i, x) == [v EXCEPT ![i + 1] = x]

\* one round of a loop of an older interpreter
OldIterated(ctl, integers, pointer, ii, out) ==
    [ctl |-> ctl, integers |-> integers, pointer |-> pointer,
     input_index |-> ii, output |-> out]

\* faulty variant of Day2Arithmetic: the pointer moves on by three words
Day2Arithmetic_advancesByThree(intcode, pointer, word1, checks) ==
    IF \/ ~InVec(intcode, pointer + 1)
       \/ ~InVec(intcode, AsUsize(At(intcode, pointer + 1)))
       \/ ~InVec(intcode, pointer + 2)
       \/ ~InVec(intcode, AsUsize(At(intcode, pointer + 2)))
       \/ ~InVec(intcode, pointer + 3)
    THEN OldIterated("panic", intcode, pointer, 0, <<>>)
    ELSE LET a == At(intcode, AsUsize(At(intcode, pointer + 1)))
             b == At(intcode, AsUsize(At(intcode, pointer + 2)))
             target == AsUsize(At(intcode, pointer + 3))
             value == IF word1 = 1 THEN a + b ELSE a * b
         IN  IF (checks /\ OverflowsI32(value)) \/ ~InVec(intcode, target)
             THEN OldIterated("panic", intcode, pointer, 0, <<>>)
             ELSE OldIterated("continue", VecSet(intcode, target, WrapI32(value)),
                              pointer + 3, 0, <<>>)

\* day2, the arms `1 =>` and `2 =>`: a, b, target, `intcode[target] = a + b`
\* (`a * b`), then `pointer += 4`
Day2Arithmetic(intcode, pointer, word1, checks) ==
    IF \/ ~InVec(intcode, pointer + 1)
       \/ ~InVec(intcode, AsUsize(At(intcode, pointer + 1)))
       \/ ~InVec(intcode, pointer + 2)
       \/ ~InVec(intcode, AsUsize(At(intcode, pointer + 2)))
       \/ ~InVec(intcode, pointer + 3)
    THEN OldIterated("panic", intcode, pointer, 0, <<>>)
    ELSE LET a == At(intcode, AsUsize(At(intcode, pointer + 1)))
             b == At(intcode, AsUsize(At(intcode, pointer + 2)))
             target == AsUsize(At(intcode, pointer + 3))
             value == IF word1 = 1 THEN a + b ELSE a * b
         IN  IF (checks /\ OverflowsI32(value)) \/ ~InVec(intcode, target)
             THEN OldIterated("panic", intcode, pointer, 0, <<>>)
             ELSE OldIterated("continue", VecSet(intcode, target, WrapI32(value)),
                              pointer + 4, 0, <<>>)

\* day2: `match intcode[pointer]`
Day2Iteration(intcode, pointer, checks) ==
    IF ~InVec(intcode, pointer)
    THEN OldIterated("panic", intcode, pointer, 0, <<>>)
    ELSE CASE At(intcode, pointer) \in {1, 2} ->
                Day2Arithmetic(intcode, pointer, At(intcode, pointer), checks)
           [] At(intcode, pointer) = 99 ->
                OldIterated("break", intcode, pointer, 0, <<>>)
           [] OTHER -> OldIterated("panic", intcode, pointer, 0, <<>>)

\* what a run of an older interpreter ends with
OldResult(kind, integers, out) == [kind |-> kind, integers |-> integers, output |-> out]

RECURSIVE RunIntcodeFrom(_, _, _, _)
RunIntcodeAfter(s, checks, fuel) ==
    CASE s.ctl = "continue" -> RunIntcodeFrom(s.integers, s.pointer, checks, fuel - 1)
      [] s.ctl = "break" -> OldResult("Ok", s.integers, <<>>)
      [] s.ctl = "panic" -> OldResult("Panic", s.integers, <<>>)

RunIntcodeFrom(intcode, pointer, checks, fuel) ==
    IF fuel = 0 THEN OldResult("Diverged", intcode, <<>>)
    ELSE RunIntcodeAfter(Day2Iteration(intcode, pointer, checks), checks, fuel)

\* day2: run_intcode(&mut intcode)
run_intcode(intcode, checks, fuel) == RunIntcodeFrom(intcode, 0, checks, fuel)

\* enum Opcode of day5 and of day7
Day5Opcodes == {Add, Mult, Input, Output, Halt}
Day7Opcodes == {Add, Mult, Input, Output, JumpIfTrue, JumpIfFalse, LessThan, Equals, Halt}

\* Instruction::try_from(i32) of day5 and day7: a write target is given
\* ParameterMode::Position whatever its digit, the other digits must be 0 or 1
OldInstructionTryFrom(opcodes, integer) ==
    LET opcode == AsU8(RemT(integer, 100))
    IN  IF opcode \notin opcodes THEN DecodeError
        ELSE LET n == parameter_count(opcode)
                 modes == [i \in 1..n |->
                              IF (i - 1) \in target_parameter_index(opcode)
                              THEN Position
                              ELSE ModeDigit(integer, i - 1)]
             IN  IF \E i \in 1..n : modes[i] \notin {Position, Immediate}
                 THEN DecodeError
                 ELSE [ok |-> TRUE, opcode |-> opcode, parameter_modes |-> modes]

\* the closure of load_parameters of day5 and day7
OldLoadParameter(integers, pointer, instr, parameter_index) ==
    IF ~InVec(integers, pointer + parameter_index + 1)
    THEN [panic |-> TRUE, value |-> 0]
    ELSE IF /\ instr.parameter_modes[parameter_index + 1] = Position
            /\ parameter_index \notin target_parameter_index(instr.opcode)
         THEN IF InVec(integers, AsUsize(At(integers, pointer + parameter_index + 1)))
              THEN [panic |-> FALSE,
                    value |-> At(integers,
                                 AsUsize(At(integers, pointer + parameter_index + 1)))]
              ELSE [panic |-> TRUE, value |-> 0]
         ELSE [panic |-> FALSE, value |-> At(integers, pointer + parameter_index + 1)]

\* load_parameters of day5 and day7
OldLoadParameters(integers, pointer, instr) ==
    [i \in 1..parameter_count(instr.opcode) |->
        OldLoadParameter(integers, pointer, instr, i - 1)]

\* `self.integers[target as usize] = value`, then the pointer moves on
OldStore(integers, pointer, instr, target, value, ii, out) ==
    IF ~InVec(integers, AsUsize(target))
    THEN OldIterated("panic", integers, pointer, ii, out)
    ELSE OldIterated("continue", VecSet(integers, AsUsize(target), value),
                     pointer + 1 + parameter_count(instr.opcode), ii, out)

\* the arms of `match instruction.opcode` of day5 and day7 and the pointer
\* update; day5 has one `input` where day7 has `inputs[input_index]`
OldMatch(day, integers, pointer, instr, p, inp, ii, out, checks) ==
    CASE instr.opcode = Add ->
           IF checks /\ OverflowsI32(p[1] + p[2])
           THEN OldIterated("panic", integers, pointer, ii, out)
           ELSE OldStore(integers, pointer, instr, p[3], WrapI32(p[1] + p[2]), ii, out)
      [] instr.opcode = Mult ->
           IF checks /\ OverflowsI32(p[1] * p[2])
           THEN OldIterated("panic", integers, pointer, ii, out)
           ELSE OldStore(integers, pointer, instr, p[3], WrapI32(p[1] * p[2]), ii, out)
      [] instr.opcode = Input /\ day = 5 ->
           OldStore(integers, pointer, instr, p[1], inp[1], ii, out)
      [] instr.opcode = Input /\ day = 7 ->
           IF ii >= Len(inp)
           THEN OldIterated("panic", integers, pointer, ii, out)
           ELSE OldStore(integers, pointer, instr, p[1], inp[ii + 1], ii + 1, out)
      [] instr.opcode = Output ->
           OldIterated("continue", integers, pointer + 2, ii, Append(out, p[1]))
      [] instr.opcode = JumpIfTrue ->
           OldIterated("continue", integers,
                       IF p[1] # 0 THEN AsUsize(p[2]) ELSE pointer + 3, ii, out)
      [] instr.opcode = JumpIfFalse ->
           OldIterated("continue", integers,
                       IF p[1] = 0 THEN AsUsize(p[2]) ELSE pointer + 3, ii, out)
      [] instr.opcode = LessThan ->
           OldStore(integers, pointer, instr, p[3], IF p[1] < p[2] THEN 1 ELSE 0, ii, out)
      [] instr.opcode = Equals ->
           OldStore(integers, pointer, instr, p[3], IF p[1] = p[2] THEN 1 ELSE 0, ii, out)
      [] instr.opcode = Halt ->
           OldIterated("break", integers, pointer, ii, out)

\* after load_parameters
OldAfterLoad(day, integers, pointer, instr, loaded, inp, ii, out, checks) ==
    IF \E i \in DOMAIN loaded : loaded[i].panic
    THEN OldIterated("panic", integers, pointer, ii, out)
    ELSE OldMatch(day, integers, pointer, instr,
                  [i \in DOMAIN loaded |-> loaded[i].value], inp, ii, out, checks)

\* after Instruction::try_from(self.integers[pointer]): the `?`, then load_parameters
OldAfterDecode(day, integers, pointer, instr, inp, ii, out, checks) ==
    IF ~instr.ok
    THEN OldIterated("err", integers, pointer, ii, out)
    ELSE OldAfterLoad(day, integers, pointer, instr,
                      OldLoadParameters(integers, pointer, instr), inp, ii, out, checks)

\* one round of the loop of execute of day5 (day = 5) or day7 (day = 7)
OldIteration(day, integers, pointer, inp, ii, out, checks) ==
    IF ~InVec(integers, pointer)
    THEN OldIterated("panic", integers, pointer, ii, out)
    ELSE OldAfterDecode(day, integers, pointer,
                        OldInstructionTryFrom(IF day = 5 THEN Day5Opcodes ELSE Day7Opcodes,
                                              At(integers, pointer)),
                        inp, ii, out, checks)

RECURSIVE OldExecuteFrom(_, _, _, _, _, _, _, _)
OldExecuteAfter(day, s, inp, checks, fuel) ==
    CASE s.ctl = "continue" ->
           OldExecuteFrom(day, s.integers, s.pointer, inp, s.input_index, s.output,
                          checks, fuel - 1)
      [] s.ctl = "break" -> OldResult("Ok", s.integers, s.output)
      [] s.ctl = "err" -> OldResult("Err", s.integers, <<>>)
      [] s.ctl = "panic" -> OldResult("Panic", s.integers, <<>>)

OldExecuteFrom(day, integers, pointer, inp, ii, out, checks, fuel) ==
    IF fuel = 0 THEN OldResult("Diverged", integers, <<>>)
    ELSE OldExecuteAfter(day, OldIteration(day, integers, pointer, inp, ii, out, checks),
                         inp, checks, fuel)

\* day5: Intcode::execute(&mut self, input: i32)
Day5Execute(integers, input, checks, fuel) ==
    OldExecuteFrom(5, integers, 0, <<input>>, 0, <<>>, checks, fuel)

\* day7: Intcode::execute(&mut self, inp: &[i32])
Day7Execute(integers, inp, checks, fuel) ==
    OldExecuteFrom(7, integers, 0, inp, 0, <<>>, checks, fuel)

(***************************************************************************)
(* One image run by the four interpreters, each on its own copy.           *)
(***************************************************************************)
\* the images of day2's test runs_intcodes, every image of one ADD, MULTIPLY
\* or HALT followed by a HALT, and images with other words
VersionPrograms ==
    { <<1, 0, 0, 0, 99>>,
      <<2, 3, 0, 3, 99>>,
      <<2, 4, 4, 5, 99, 0>>,
      <<1, 1, 1, 4, 99, 5, 6, 0, 99>>,
      <<1, 9, 10, 3, 2, 3, 11, 0, 99, 30, 40, 50>>,
      <<1, 9, 10, 3, 2, 3, 11, 0, 99, 3, 4, 5>>,
      <<1, 5, 6, 4, 99, 1, 2>>,                 \* the sum 3 is executed as an INPUT
      <<1, 5, 6, 4, 99, 50, 49>>,               \* the sum 99 is executed as a HALT
      <<2, 5, 6, 4, 99, 3, 33>>,                \* the product 99 is executed as a HALT
      <<1, 5, 5, 0, 99, -3>>,                   \* a negative sum
      <<1, 4, 5, -1, 99, 0>>,                   \* a negative write target
      <<199>>,                                  \* HALT with a digit above the opcode
      <<1101, 1, 1, 0, 99>>,                    \* immediate operands
      <<3, 0, 99>> }                            \* an INPUT
    \cup { <<op, a, b, c, 99>> : op \in {1, 2, 99}, a \in 0..5, b \in 0..5, c \in 0..5 }

NotRun == [kind |-> "None"]

InitVersions ==
    /\ image \in VersionPrograms
    /\ vm = New(image)
    /\ overflow_checks \in BOOLEAN
    /\ pc = "idle"
    /\ inputs = <<>>
    /\ input_index = 0
    /\ output = <<>>
    /\ instruction = DecodeError
    /\ parameters = <<>>
    /\ result = NoResult
    /\ steps = 0
    /\ calls = 0
    /\ hist = NoHistory(vm, FALSE)
    /\ word = 0
    /\ other = NoInstance
    /\ circuit = NoCircuit
    /\ versions = [ran |-> {}, day2 |-> NotRun, day5 |-> NotRun, day7 |-> NotRun,
                   day13 |-> NotRun]

\* day2: `let mut intcode = vec![..]; run_intcode(&mut intcode);`
RunDay2 ==
    /\ 2 \notin versions.ran
    /\ versions' = [versions EXCEPT !.ran = @ \cup {2},
                       !.day2 = run_intcode(image, overflow_checks, MaxSteps)]
    /\ UNCHANGED <<vm, overflow_checks, image, pc, inputs, input_index, output,
                   instruction, parameters, result, steps, calls, hist, word,
                   other, circuit>>

\* day5: `Intcode { integers: vec![..] }.execute(0)`
RunDay5 ==
    /\ 5 \notin versions.ran
    /\ versions' = [versions EXCEPT !.ran = @ \cup {5},
                       !.day5 = Day5Execute(image, 0, overflow_checks, MaxSteps)]
    /\ UNCHANGED <<vm, overflow_checks, image, pc, inputs, input_index, output,
                   instruction, parameters, result, steps, calls, hist, word,
                   other, circuit>>

\* day7: `Intcode { integers: vec![..] }.execute(&[])`
RunDay7 ==
    /\ 7 \notin versions.ran
    /\ versions' = [versions EXCEPT !.ran = @ \cup {7},
                       !.day7 = Day7Execute(image, <<>>, overflow_checks, MaxSteps)]
    /\ UNCHANGED <<vm, overflow_checks, image, pc, inputs, input_index, output,
                   instruction, parameters, result, steps, calls, hist, word,
                   other, circuit>>

\* day13: `Intcode::new(..).execute(&[])`
RunDay13 ==
    /\ 13 \notin versions.ran
    /\ versions' = [versions EXCEPT !.ran = @ \cup {13},
                       !.day13 = execute(vm, <<>>, overflow_checks, MaxSteps)]
    /\ UNCHANGED <<vm, overflow_checks, image, pc, inputs, input_index, output,
                   instruction, parameters, result, steps, calls, hist, word,
                   other, circuit>>

NextVersions ==
    \/ RunDay2
    \/ RunDay5
    \/ RunDay7
    \/ RunDay13

SpecVersions == InitVersions /\ [][NextVersions]_vars

(***************************************************************************)
(* day7: Amplifier and AmplificationCircuit.  The Intcode of an amplifier  *)
(* is the VM of the specification: resumable, with a halted flag.          *)
(***************************************************************************)
\* `AmplificationCircuit::new(intcode, 5)`, `phase_settings: &[i32; 5]`, `self.amplifiers[4]`
AmplifierCount == 5

\* the programs the circuit is built from, each with the phase setting
\* options it is searched with: one output per amplifier and no feedback; a
\* feedback loop of two rounds; a program that halts on its phase setting;
\* negative signals; a round without an output; a round that fails to decode
CircuitCases ==
    { [program |-> <<3, 15, 3, 16, 1002, 16, 2, 16, 1, 16, 15, 15, 4, 15, 99, 0, 0>>,
       options |-> <<0, 1, 2, 3, 4>>],
      [program |-> <<3, 26, 1001, 26, -4, 26, 3, 27, 1002, 27, 2, 27, 1, 27, 26, 27,
                     4, 27, 1001, 28, -1, 28, 1005, 28, 6, 99, 0, 0, 2>>,
       options |-> <<5, 6, 7, 8, 9>>],
      [program |-> <<3, 0, 99>>,
       options |-> <<0, 1, 2, 3, 4>>],
      [program |-> <<3, 15, 3, 16, 1002, 15, -1, 15, 1, 16, 15, 15, 4, 15, 99, 0, 0>>,
       options |-> <<0, 1, 2, 3, 4>>],
      [program |-> <<3, 0, 3, 1, 99>>,
       options |-> <<0, 1, 2, 3, 4>>],
      [program |-> <<3, 0, 3, 1, 4, 1, 0>>,
       options |-> <<0, 1, 2, 3, 4>>] }

\* the input signals
SignalValues == {0, 1}

\* `Heap::new(&mut phase_setting)`: the array, the counters of Heap's
\* algorithm, the position; the first permutation yielded is the array itself
HeapNew(data) ==
    [data |-> data, c |-> [k \in 1..Len(data) |-> 0], i |-> 1,
     first |-> TRUE, done |-> FALSE]

\* the iterator's `next`: Heap's algorithm up to the next permutation, which
\* is left in data; done when there is none
RECURSIVE HeapNext(_)
HeapNext(heap) ==
    IF heap.first THEN [heap EXCEPT !.first = FALSE]
    ELSE IF heap.i > Len(heap.data) THEN [heap EXCEPT !.done = TRUE]
    ELSE IF heap.c[heap.i] < heap.i - 1
    THEN [heap EXCEPT
             !.data = [@ EXCEPT
                 ![IF (heap.i - 1) % 2 = 0 THEN 1 ELSE heap.c[heap.i] + 1] = heap.data[heap.i],
                 ![heap.i] = heap.data[IF (heap.i - 1) % 2 = 0 THEN 1 ELSE heap.c[heap.i] + 1]],
             !.c[heap.i] = @ + 1,
             !.i = 1]
    ELSE HeapNext([heap EXCEPT !.c[heap.i] = 0, !.i = @ + 1])

\* Amplifier::execute(input): `self.intcode.execute(&[input])?`
AmplifierExecute(intcode, input, checks) == execute(intcode, <<input>>, checks, MaxSteps)

\* AmplificationCircuit::new(intcode, amplifier_count), then the entry of
\* find_max_output(input_signal, phase_setting_options)
FindMaxOutput(intcode, amplifier_count, input_signal, phase_setting_options) ==
    [built |-> TRUE,
     amplifiers |-> [k \in 1..amplifier_count |-> Clone(intcode).intcode],
     intcode |-> intcode,
     input_signal |-> input_signal,
     heap |-> HeapNew(phase_setting_options),
     permutation |-> phase_setting_options,
     max_output |-> 0,
     at |-> "for_permutation",
     index |-> 0,
     input |-> 0,
     result |-> [kind |-> "None"],
     \* history: the options, the amplifier calls of the present
     \* execute_circuit, whether amplifier 4 was halted when it was entered,
     \* what the last execute_circuit returned, the permutations done with
     \* their outputs
     options |-> phase_setting_options,
     rounds |-> <<>>,
     entered_halted |-> FALSE,
     last |-> [returned |-> FALSE],
     outputs |-> <<>>]

InitCircuit ==
    /\ \E c \in CircuitCases, signal \in SignalValues :
          /\ image = c.program
          /\ circuit = FindMaxOutput(New(c.program), AmplifierCount, signal, c.options)
    /\ vm = New(image)
    /\ overflow_checks \in BOOLEAN
    /\ pc = "idle"
    /\ inputs = <<>>
    /\ input_index = 0
    /\ output = <<>>
    /\ instruction = DecodeError
    /\ parameters = <<>>
    /\ result = NoResult
    /\ steps = 0
    /\ calls = 0
    /\ hist = NoHistory(vm, FALSE)
    /\ word = 0
    /\ other = NoInstance
    /\ versions = NoVersions

\* the step is one of the circuit alone
CircuitOnly ==
    UNCHANGED <<vm, overflow_checks, image, pc, inputs, input_index, output,
                instruction, parameters, result, steps, calls, hist, word,
                other, versions>>

\* find_max_output: `for permutation in heap`, the next permutation
TakePermutation ==
    /\ circuit.built
    /\ circuit.at = "for_permutation"
    /\ \E next \in {HeapNext(circuit.heap)} :
          /\ ~next.done
          /\ circuit' = [circuit EXCEPT !.permutation = next.data,
                                        !.heap = next,
                                        !.at = "set_phase_settings",
                                        !.index = 0]
    /\ CircuitOnly

\* find_max_output: the iterator is used up, `Ok(max_output)`
ReturnMaxOutput ==
    /\ circuit.built
    /\ circuit.at = "for_permutation"
    /\ HeapNext(circuit.heap).done
    /\ circuit' = [circuit EXCEPT !.at = "returned",
                                  !.result = [kind |-> "Ok", value |-> circuit.max_output]]
    /\ CircuitOnly

\* set_phase_settings: `self.amplifiers[index].execute(*phase_setting)?`;
\* after the last one, the entry of execute_circuit: `input = input_signal`
SetPhaseSetting ==
    /\ circuit.built
    /\ circuit.at = "set_phase_settings"
    /\ \E r \in {AmplifierExecute(circuit.amplifiers[circuit.index + 1],
                                  circuit.permutation[circuit.index + 1],
                                  overflow_checks)} :
          /\ r.kind # "Diverged"
          /\ circuit' =
                CASE r.kind = "Ok" /\ circuit.index + 1 < AmplifierCount ->
                       [circuit EXCEPT !.amplifiers[circuit.index + 1] = r.vm,
                                       !.index = @ + 1]
                  [] r.kind = "Ok" /\ circuit.index + 1 = AmplifierCount ->
                       [circuit EXCEPT !.amplifiers[circuit.index + 1] = r.vm,
                                       !.index = 0,
                                       !.at = "while",
                                       !.input = circuit.input_signal,
                                       !.rounds = <<>>,
                                       !.entered_halted =
                                           IF circuit.index + 1 = AmplifierCount
                                           THEN r.vm.halted
                                           ELSE circuit.amplifiers[AmplifierCount].halted]
                  [] r.kind = "Err" ->
                       [circuit EXCEPT !.at = "failed", !.result = [kind |-> "Err"]]
                  [] r.kind = "Panic" -> [circuit EXCEPT !.at = "panicked"]
    /\ CircuitOnly

\* execute_circuit: `while !self.amplifiers[4].intcode.halted`, the loop is entered
WhileNotHalted ==
    /\ circuit.built
    /\ circuit.at = "while"
    /\ ~circuit.amplifiers[4 + 1].halted
    /\ circuit' = [circuit EXCEPT !.at = "for", !.index = 0]
    /\ CircuitOnly

\* faulty variant of AmplifierRuns: every amplifier is given the input signal
AmplifierRuns_feedsSignal ==
    /\ circuit.built
    /\ circuit.at = "for"
    /\ \E r \in {AmplifierExecute(circuit.amplifiers[circuit.index + 1],
                                  circuit.input_signal, overflow_checks)} :
          /\ r.kind # "Diverged"
          /\ circuit' =
                CASE r.kind = "Ok" /\ r.output # <<>> ->
                       [circuit EXCEPT
                           !.amplifiers[circuit.index + 1] = r.vm,
                           !.input = r.output[1],
                           !.rounds = Append(@, [amp |-> circuit.index,
                                                 fed |-> <<circuit.input_signal>>,
                                                 out |-> r.output,
                                                 halted |-> r.vm.halted]),
                           !.index = IF circuit.index + 1 = AmplifierCount THEN 0 ELSE @ + 1,
                           !.at = IF circuit.index + 1 = AmplifierCount THEN "while" ELSE @]
                  [] r.kind = "Ok" /\ r.output = <<>> -> [circuit EXCEPT !.at = "panicked"]
                  [] r.kind = "Err" ->
                       [circuit EXCEPT !.at = "failed", !.result = [kind |-> "Err"]]
                  [] r.kind = "Panic" -> [circuit EXCEPT !.at = "panicked"]
    /\ CircuitOnly

\* execute_circuit: `input = amplifier.execute(input)?[0]` for the next
\* amplifier of `self.amplifiers.iter_mut()`; `[0]` of an empty output panics
AmplifierRuns ==
    /\ circuit.built
    /\ circuit.at = "for"
    /\ \E r \in {AmplifierExecute(circuit.amplifiers[circuit.index + 1],
                                  circuit.input, overflow_checks)} :
          /\ r.kind # "Diverged"
          /\ circuit' =
                CASE r.kind = "Ok" /\ r.output # <<>> ->
                       [circuit EXCEPT
                           !.amplifiers[circuit.index + 1] = r.vm,
                           !.input = r.output[1],
                           !.rounds = Append(@, [amp |-> circuit.index,
                                                 fed |-> <<circuit.input>>,
                                                 out |-> r.output,
                                                 halted |-> r.vm.halted]),
                           !.index = IF circuit.index + 1 = AmplifierCount THEN 0 ELSE @ + 1,
                           !.at = IF circuit.index + 1 = AmplifierCount THEN "while" ELSE @]
                  [] r.kind = "Ok" /\ r.output = <<>> -> [circuit EXCEPT !.at = "panicked"]
                  [] r.kind = "Err" ->
                       [circuit EXCEPT !.at = "failed", !.result = [kind |-> "Err"]]
                  [] r.kind = "Panic" -> [circuit EXCEPT !.at = "panicked"]
    /\ CircuitOnly

\* execute_circuit: the `while` ends, `Ok(input)`; find_max_output:
\* `if output > max_output { max_output = output; }`, `self.reset_circuit()`,
\* which gives every amplifier `self.intcode.clone()`
ExecuteCircuitReturns ==
    /\ circuit.built
    /\ circuit.at = "while"
    /\ circuit.amplifiers[4 + 1].halted
    /\ circuit' =
          [circuit EXCEPT
              !.max_output = IF circuit.input > @ THEN circuit.input ELSE @,
              !.amplifiers = [k \in DOMAIN @ |-> Clone(circuit.intcode).intcode],
              !.at = "for_permutation",
              !.last = [returned |-> TRUE, value |-> circuit.input,
                        rounds |-> circuit.rounds,
                        entered_halted |-> circuit.entered_halted],
              !.outputs = Append(@, [permutation |-> circuit.permutation,
                                     output |-> circuit.input])]
    /\ CircuitOnly

NextCircuit ==
    \/ TakePermutation
    \/ ReturnMaxOutput
    \/ SetPhaseSetting
    \/ WhileNotHalted
    \/ AmplifierRuns
    \/ ExecuteCircuitReturns

SpecCircuit == InitCircuit /\ [][NextCircuit]_vars

(***************************************************************************)
(* Vocabulary of the properties: an instruction word read the way the      *)
(* specification describes it, without the decoder.                        *)
(***************************************************************************)
ValidOpcodes == {1, 2, 3, 4, 5, 6, 7, 8, 9, 99}

SpecParameterCount(op) ==
    CASE op = 99 -> 0
      [] op \in {3, 4, 9} -> 1
      [] op \in {5, 6} -> 2
      [] op \in {1, 2, 7, 8} -> 3

\* the decimal digit of w at 10^k
DecimalDigit(w, k) == (w \div 10^k) % 10

\* the parameter index an opcode writes through, as a set
SpecWriteTarget(op) ==
    IF op \in {1, 2, 7, 8} THEN {2} ELSE IF op = 3 THEN {0} ELSE {}

\* w has a valid opcode and a valid mode digit for each of its parameters
WellFormed(w) ==
    /\ w >= 0
    /\ (w % 100) \in ValidOpcodes
    /\ \A i \in 0..(SpecParameterCount(w % 100) - 1) : DecimalDigit(w, 2 + i) \in {0, 1, 2}

WordAtPointer == Get(vm.integers, vm.pointer)

\* the value stored in the cell of parameter i of the instruction at the pointer
StoredParameter(i) == Get(vm.integers, vm.pointer + 1 + i)

\* every address reads the same value in both maps
SameReads(m1, m2) == \A a \in DOMAIN m1 \cup DOMAIN m2 : Get(m1, a) = Get(m2, a)

\* the next iteration is an INPUT that finds no unconsumed input value
StarvedInputAhead ==
    /\ Running
    /\ WellFormed(WordAtPointer)
    /\ WordAtPointer % 100 = 3
    /\ input_index >= Len(inputs)

(***************************************************************************)
(* C1.  When execute reaches an INPUT after every value of the call's      *)
(* inputs has been consumed, it returns Ok with the outputs of the call so *)
(* far, halted stays false, and pointer, relative_base and the value read  *)
(* at every address are as they were before the INPUT was attempted; the   *)
(* pointer still addresses the INPUT instruction.                          *)
(***************************************************************************)
C1_StarvedInputSuspends ==
    [][StarvedInputAhead =>
          /\ pc' = "idle"
          /\ result' = [kind |-> "Ok", output |-> output]
          /\ vm'.halted = FALSE
          /\ vm'.pointer = vm.pointer
          /\ vm'.relative_base = vm.relative_base
          /\ SameReads(vm'.integers, vm.integers)
          /\ Get(vm'.integers, vm'.pointer) = WordAtPointer
          /\ input_index' = input_index]_vars

\* a call that produced output and consumed input has suspended at an INPUT
C1_Witness ==
    /\ pc = "idle"
    /\ hist.why = "starved"
    /\ Len(result.output) > 0
    /\ input_index > 0
    /\ ~vm.halted

(***************************************************************************)
(* C2.  A single execute(inputs) on a fresh VM, for comparison with the    *)
(* two calls execute(inputs[..k]); execute(inputs[k..]) a behaviour of     *)
(* SpecSplit has made: hist.fed is inputs, k is the length of the first    *)
(* batch.  Two calls that both returned took at most 2 * MaxSteps          *)
(* iterations, and the single call takes no more.                          *)
(***************************************************************************)
SingleRun == execute(New(image), hist.fed, overflow_checks, 2 * MaxSteps)

TwoCallsReturned == pc = "idle" /\ calls = 2

\* C2 as stated: for every program, input sequence and split point the two
\* calls give the same concatenated output and the same final VM state as
\* the single call.
C2_SplitEqualsSingle ==
    TwoCallsReturned =>
        /\ hist.outs = SingleRun.output
        /\ vm = SingleRun.vm

\* C2 as amended: the two calls give the same final VM state as the single
\* call, and the same concatenated output whenever the single call returns
\* Ok.
C2_SplitEqualsSingleWhenOk ==
    TwoCallsReturned =>
        /\ vm = SingleRun.vm
        /\ SingleRun.kind \in {"Ok", "Err"}
        /\ SingleRun.kind = "Ok" =>
              /\ result.kind = "Ok"
              /\ hist.outs = SingleRun.output

\* the first call consumed its batch and suspended, the second consumed an
\* input and ran to the halt, and output was returned
C2_Witness ==
    /\ TwoCallsReturned
    /\ hist.pre_why = "starved"
    /\ Len(hist.fed) = 2
    /\ Len(inputs) = 1
    /\ input_index = 1
    /\ vm.halted
    /\ Len(hist.outs) > 0

(***************************************************************************)
(* C3.  execute with an empty batch on a VM suspended at an INPUT returns  *)
(* an empty output and leaves the whole VM state identical, however often  *)
(* it is repeated.                                                         *)
(***************************************************************************)
C3_EmptyBatchIsNoOp ==
    (pc = "idle" /\ hist.pre_why = "starved" /\ inputs = <<>>) =>
        /\ result = [kind |-> "Ok", output |-> <<>>]
        /\ vm = hist.pre
        /\ hist.why = "starved"

\* the third call in a row that ended starved, with an empty batch, has
\* returned on a program that has an OUTPUT before its INPUT
C3_Witness ==
    /\ pc = "idle"
    /\ calls = 3
    /\ hist.pre_why = "starved"
    /\ inputs = <<>>
    /\ image = <<4, 0, 3, 0, 0>>
    /\ vm.pointer = 2

(***************************************************************************)
(* C4.  After a suspension on input starvation the next call with a        *)
(* non-empty batch executes that INPUT first: it stores the first value of *)
(* the batch at the instruction's write-target address and goes on with    *)
(* the instruction that follows.                                           *)
(***************************************************************************)
\* the write-target address of the INPUT at the pointer
InputTargetAddress ==
    IF DecimalDigit(WordAtPointer, 2) = 2
    THEN StoredParameter(0) + vm.relative_base
    ELSE StoredParameter(0)

C4_ResumeExecutesTheInput ==
    [][(Running /\ steps = 0 /\ hist.pre_why = "starved" /\ Len(inputs) > 0) =>
          /\ WellFormed(WordAtPointer)
          /\ WordAtPointer % 100 = 3
          /\ vm = hist.pre
          /\ pc' = "running"
          /\ steps' = 1
          /\ input_index' = 1
          /\ Get(vm'.integers, AsUsize(InputTargetAddress)) = inputs[1]
          /\ vm'.pointer = vm.pointer + 2]_vars

\* the resumed call has just executed a RELATIVE-mode INPUT
C4_Witness ==
    /\ pc = "running"
    /\ steps = 1
    /\ calls >= 2
    /\ hist.pre_why = "starved"
    /\ input_index = 1
    /\ instruction.opcode = Input
    /\ instruction.parameter_modes = <<Relative>>

(***************************************************************************)
(* C5.  Halted is terminal: every execute call on a halted VM returns an   *)
(* empty output, consumes no input and leaves halted true and memory,      *)
(* pointer and relative_base unchanged.                                    *)
(***************************************************************************)
C5_HaltedIsTerminal ==
    (calls > 0 /\ hist.pre.halted) =>
        /\ vm = hist.pre
        /\ vm.halted
        /\ input_index = 0
        /\ pc = "idle" => result = [kind |-> "Ok", output |-> <<>>]

\* a call with two input values on a halted VM has returned
C5_Witness ==
    /\ pc = "idle"
    /\ hist.pre.halted
    /\ Len(inputs) = 2
    /\ result.kind = "Ok"

(***************************************************************************)
(* C6.  Whenever execute returns Ok, exactly one of two situations holds:  *)
(* halted is true and the word at the pointer is a HALT, or halted is      *)
(* false, the word at the pointer is an INPUT and every value of the       *)
(* call's inputs has been consumed.                                        *)
(***************************************************************************)
AtHalt == vm.halted /\ WellFormed(WordAtPointer) /\ WordAtPointer % 100 = 99

AtStarvedInput ==
    /\ ~vm.halted
    /\ WellFormed(WordAtPointer)
    /\ WordAtPointer % 100 = 3
    /\ input_index = Len(inputs)

C6_OkOnlyAtHaltOrStarvedInput ==
    (pc = "idle" /\ result.kind = "Ok") =>
        /\ AtHalt \/ AtStarvedInput
        /\ ~(AtHalt /\ AtStarvedInput)

\* a call that consumed both values of its batch and suspended
C6_Witness ==
    /\ pc = "idle"
    /\ result.kind = "Ok"
    /\ AtStarvedInput
    /\ input_index = 2

(***************************************************************************)
(* C7.  Decoding a word w succeeds only if w modulo 100 is one of 1..9 or  *)
(* 99; the decoded opcode is then that value, with its fixed parameter     *)
(* count (0 for 99; 1 for 3, 4, 9; 2 for 5, 6; 3 for 1, 2, 7, 8); for      *)
(* every other word execute fails with a decode error.  Stated of          *)
(* SpecDecode, negative words included.                                    *)
(***************************************************************************)
\* execute on a VM whose pointer addresses the word, first iteration
ExecuteOnWord == execute(New(<<word>>), <<>>, overflow_checks, 1)

C7_OpcodeAndParameterCount ==
    pc = "decoded" =>
        /\ instruction.ok =>
              /\ (word % 100) \in ValidOpcodes
              /\ instruction.opcode = word % 100
              /\ Len(instruction.parameter_modes) = SpecParameterCount(word % 100)
        /\ (word % 100) \notin ValidOpcodes =>
              /\ ~instruction.ok
              /\ ExecuteOnWord.kind = "Err"

\* a jump with mode digits has been decoded
C7_Witness ==
    /\ pc = "decoded"
    /\ instruction.ok
    /\ instruction.opcode = JumpIfFalse
    /\ word > 1000

(***************************************************************************)
(* C8.  For a word with a valid opcode the mode of parameter i is the      *)
(* decimal digit of the word at 10^(2+i): 0 is POSITION, 1 IMMEDIATE,      *)
(* 2 RELATIVE; any other digit in such a position makes execute fail with  *)
(* a decode error.  Stated of SpecDecode.                                  *)
(***************************************************************************)
SpecMode(digit) ==
    CASE digit = 0 -> Position
      [] digit = 1 -> Immediate
      [] digit = 2 -> Relative

C8_ModeDigits ==
    (pc = "decoded" /\ word >= 0 /\ (word % 100) \in ValidOpcodes) =>
        IF \A i \in 0..(SpecParameterCount(word % 100) - 1) :
               DecimalDigit(word, 2 + i) \in {0, 1, 2}
        THEN /\ instruction.ok
             /\ \A i \in 0..(SpecParameterCount(word % 100) - 1) :
                   instruction.parameter_modes[i + 1] = SpecMode(DecimalDigit(word, 2 + i))
        ELSE /\ ~instruction.ok
             /\ ExecuteOnWord.kind = "Err"

\* 21001: three different modes, one per parameter, have been decoded
C8_Witness ==
    /\ pc = "decoded"
    /\ word = 21001
    /\ instruction.parameter_modes = <<Position, Immediate, Relative>>

(***************************************************************************)
(* C9.  Parameter resolution.  For the write-target parameter of ADD,      *)
(* MULTIPLY, INPUT, LESS-THAN and EQUALS, POSITION yields the stored value *)
(* itself and RELATIVE the stored value + relative_base, with no           *)
(* dereference; for every other parameter POSITION yields                  *)
(* memory[stored value], RELATIVE memory[stored value + relative_base] and *)
(* IMMEDIATE the stored value.  memory[a] is stated for addresses a >= 0.  *)
(***************************************************************************)
ResolvedAsSpecified(i, value) ==
    LET op == WordAtPointer % 100
        digit == DecimalDigit(WordAtPointer, 2 + i)
        stored == StoredParameter(i)
    IN  IF i \in SpecWriteTarget(op)
        THEN /\ digit = 0 => value = stored
             /\ digit = 2 => value = stored + vm.relative_base
        ELSE /\ (digit = 0 /\ stored >= 0) => value = Get(vm.integers, stored)
             /\ (digit = 2 /\ stored + vm.relative_base >= 0) =>
                    value = Get(vm.integers, stored + vm.relative_base)
             /\ digit = 1 => value = stored

C9_ParameterResolution ==
    [][(Running /\ WellFormed(WordAtPointer) /\ pc' # "panicked") =>
          /\ Len(parameters') = SpecParameterCount(WordAtPointer % 100)
          /\ \A i \in 0..(SpecParameterCount(WordAtPointer % 100) - 1) :
                ResolvedAsSpecified(i, parameters'[i + 1])]_vars

\* an ADD with three RELATIVE parameters under a non-zero relative base
C9_Witness ==
    /\ pc = "running"
    /\ vm.relative_base = 9
    /\ instruction.opcode = Add
    /\ instruction.parameter_modes = <<Relative, Relative, Relative>>
    /\ parameters = <<99, 204, 14>>
    /\ Get(vm.integers, 14) = 303

(***************************************************************************)
(* C10.  An instruction whose write-target parameter carries IMMEDIATE     *)
(* mode (11101, 103).                                                      *)
(***************************************************************************)
\* the instruction at the pointer is well formed and its write target is IMMEDIATE
ImmediateTargetAhead ==
    /\ Running
    /\ WellFormed(WordAtPointer)
    /\ \E t \in SpecWriteTarget(WordAtPointer % 100) : DecimalDigit(WordAtPointer, 2 + t) = 1

\* the stored value of the write-target parameter of the instruction at the pointer
StoredTarget ==
    StoredParameter(CHOOSE t \in SpecWriteTarget(WordAtPointer % 100) : TRUE)

\* C10 as stated: the instruction is a fatal decode error: execute returns
\* a failure and writes nothing to memory.
C10_ImmediateTargetIsDecodeError ==
    [][ImmediateTargetAhead =>
          /\ pc' = "idle"
          /\ result'.kind = "Err"
          /\ SameReads(vm'.integers, vm.integers)]_vars

\* C10 as amended: the instruction decodes and is executed; its write goes
\* to the address given by the stored value of the write-target parameter
\* itself (as in POSITION mode), and no other address changes its value.
C10_ImmediateTargetWritesAtStoredValue ==
    [][(ImmediateTargetAhead /\ ~StarvedInputAhead /\ pc' # "panicked") =>
          /\ pc' = "running"
          /\ result'.kind # "Err"
          /\ instruction'.ok
          /\ parameters'[Len(parameters')] = StoredTarget
          /\ \A a \in (DOMAIN vm.integers \cup DOMAIN vm'.integers) \ {AsUsize(StoredTarget)} :
                Get(vm'.integers, a) = Get(vm.integers, a)
          /\ WordAtPointer % 100 = 1 =>
                Get(vm'.integers, AsUsize(StoredTarget)) = parameters'[1] + parameters'[2]
          /\ WordAtPointer % 100 = 3 =>
                Get(vm'.integers, AsUsize(StoredTarget)) = inputs[input_index + 1]]_vars

\* 11101,5,6,7 has been executed: 5 + 6 was written at address 7
C10_Witness ==
    /\ pc = "running"
    /\ instruction.opcode = Add
    /\ instruction.parameter_modes = <<Immediate, Immediate, Immediate>>
    /\ parameters = <<5, 6, 7>>
    /\ Get(vm.integers, 7) = 11

(***************************************************************************)
(* C11.  Within one execute call the n-th INPUT instruction executed       *)
(* stores inputs[n-1] (zero-based) at its write target, each value once    *)
(* and in order; the count starts again at the first value of the new      *)
(* batch on every call.  hist.inputs_done is the number of INPUTs executed *)
(* so far in the current call.                                             *)
(***************************************************************************)
\* the next iteration is an INPUT
InputAhead == Running /\ WellFormed(WordAtPointer) /\ WordAtPointer % 100 = 3

C11_InputsConsumedInOrder ==
    [][/\ (InputAhead /\ hist.inputs_done < Len(inputs)) =>
             /\ pc' = "running"
             /\ hist'.inputs_done = hist.inputs_done + 1
             /\ Get(vm'.integers, AsUsize(InputTargetAddress))
                    = inputs[hist.inputs_done + 1]
       /\ (InputAhead /\ hist.inputs_done >= Len(inputs)) =>
             /\ pc' = "idle"
             /\ hist.inputs_done = Len(inputs)
             /\ SameReads(vm'.integers, vm.integers)
       /\ (pc = "idle" /\ pc' = "running") => hist'.inputs_done = 0]_vars

\* the first call consumed 8 and suspended; the second call, given 0 and 8,
\* has stored its first value, 0, with its first INPUT
C11_Witness ==
    /\ pc = "running"
    /\ calls = 2
    /\ hist.pre_why = "starved"
    /\ inputs = <<0, 8>>
    /\ hist.inputs_done = 1
    /\ instruction.opcode = Input
    /\ Get(vm.integers, 15) = 8
    /\ Get(vm.integers, 16) = 0

(***************************************************************************)
(* C12.  The sequence an execute call returns with Ok is exactly the       *)
(* values of the OUTPUT instructions executed during that call, in         *)
(* execution order; nothing returned by an earlier call is returned again. *)
(* hist.emitted is the values of the OUTPUTs executed so far in the        *)
(* current call.                                                           *)
(***************************************************************************)
C12_ReturnsTheOutputsOfTheCall ==
    /\ pc = "running" => output = hist.emitted
    /\ (pc = "idle" /\ result.kind = "Ok") => result.output = hist.emitted

\* the first call returned 4 and suspended; the second call, given 8, has
\* returned 8 alone
C12_Witness ==
    /\ pc = "idle"
    /\ calls = 2
    /\ image = <<4, 0, 3, 1, 4, 1, 3, 9, 99>>
    /\ hist.pre_why = "starved"
    /\ hist.pre.pointer = 2
    /\ inputs = <<8>>
    /\ result = [kind |-> "Ok", output |-> <<8>>]

(***************************************************************************)
(* Vocabulary: the operands of the instruction at the pointer, read from   *)
(* the memory as it is before the instruction is executed.                 *)
(***************************************************************************)
OpcodeAhead == WordAtPointer % 100

\* the address parameter i refers to (POSITION and RELATIVE modes)
OperandAddress(i) ==
    IF DecimalDigit(WordAtPointer, 2 + i) = 2
    THEN StoredParameter(i) + vm.relative_base
    ELSE StoredParameter(i)

\* parameter i is a value of its own or refers to a non-negative address
Addressable(i) ==
    DecimalDigit(WordAtPointer, 2 + i) = 1 \/ OperandAddress(i) >= 0

\* the value of read parameter i
Operand(i) ==
    IF DecimalDigit(WordAtPointer, 2 + i) = 1
    THEN StoredParameter(i)
    ELSE Get(vm.integers, OperandAddress(i))

\* the next iteration executes an instruction with opcode op to its end
Executes(op) ==
    /\ Running
    /\ WellFormed(WordAtPointer)
    /\ OpcodeAhead = op
    /\ ~StarvedInputAhead

\* a is an address: a key of the HashMap<usize, i64>
IsAddress(a) == a >= 0 /\ a < 2^WordBits

(***************************************************************************)
(* C13.  After any instruction other than HALT and other than a starved    *)
(* INPUT, the pointer is the value of the second parameter if the          *)
(* instruction is JUMP-IF-TRUE with a non-zero first parameter or          *)
(* JUMP-IF-FALSE with a zero first parameter, and otherwise the old        *)
(* pointer + 1 + the parameter count of the opcode decoded for this step,  *)
(* also when the instruction overwrote its own opcode cell.  Stated of     *)
(* operands at non-negative addresses and of pointer values that are       *)
(* addresses.                                                              *)
(***************************************************************************)
\* the instruction at the pointer is a jump whose condition holds
JumpTaken ==
    \/ OpcodeAhead = 5 /\ Operand(0) # 0
    \/ OpcodeAhead = 6 /\ Operand(0) = 0

\* the pointer the instruction at the pointer leaves
PointerAfter ==
    IF JumpTaken THEN Operand(1)
    ELSE vm.pointer + 1 + SpecParameterCount(OpcodeAhead)

C13_PointerAfterInstruction ==
    [][\A op \in ValidOpcodes \ {99} :
          (/\ Executes(op)
           /\ pc' # "panicked"
           /\ op \in {5, 6} => (Addressable(0) /\ Addressable(1))
           /\ IsAddress(PointerAfter)) =>
              /\ pc' = "running"
              /\ vm'.pointer = PointerAfter]_vars

\* 1101,4,0,0: the ADD has replaced its own opcode by an OUTPUT, which has
\* one parameter, and the pointer has moved by 1 + 3
C13_Witness ==
    /\ pc = "running"
    /\ image = <<1101, 4, 0, 0, 99>>
    /\ instruction.opcode = Add
    /\ Get(vm.integers, 0) = 4
    /\ vm.pointer = 4

\* the signed integer of the word width that is congruent to x
SignedWord(x) == ((x + 2^(WordBits - 1)) % 2^WordBits) - 2^(WordBits - 1)

(***************************************************************************)
(* C14.  ADD writes the sum and MULTIPLY the product of its two read       *)
(* parameters to its write-target address; LESS-THAN writes 1 if the first *)
(* read parameter is strictly less than the second and 0 otherwise; EQUALS *)
(* writes 1 if the two are equal and 0 otherwise.  The read parameters are *)
(* those of the memory before the write, also when the target is the       *)
(* address of an operand.  Sum and product are those of signed integers of *)
(* the word width; addresses are non-negative.                             *)
(***************************************************************************)
\* what the instruction at the pointer (opcode 1, 2, 7 or 8) is to write
ValueToWrite ==
    CASE OpcodeAhead = 1 -> SignedWord(Operand(0) + Operand(1))
      [] OpcodeAhead = 2 -> SignedWord(Operand(0) * Operand(1))
      [] OpcodeAhead = 7 -> IF Operand(0) < Operand(1) THEN 1 ELSE 0
      [] OpcodeAhead = 8 -> IF Operand(0) = Operand(1) THEN 1 ELSE 0

C14_ArithmeticAndComparison ==
    [][\A op \in {1, 2, 7, 8} :
          (/\ Executes(op)
           /\ pc' # "panicked"
           /\ Addressable(0) /\ Addressable(1)
           /\ OperandAddress(2) >= 0) =>
              /\ pc' = "running"
              /\ Get(vm'.integers, OperandAddress(2)) = ValueToWrite]_vars

\* 1,0,0,0: the ADD has read address 0 twice and then written 1 + 1 there
C14_Witness ==
    /\ pc = "running"
    /\ image = <<1, 0, 0, 0, 99>>
    /\ instruction.opcode = Add
    /\ parameters = <<1, 1, 0>>
    /\ Get(vm.integers, 0) = 2

(***************************************************************************)
(* C15.  ADJUST-RELATIVE-BASE adds its read parameter to relative_base;    *)
(* nothing else changes relative_base, so adjustments accumulate and       *)
(* persist across execute calls (relative_base is the sum of all           *)
(* adjustments made since construction, hist.adjusted); every              *)
(* RELATIVE-mode parameter with stored offset d reads from, or as a write  *)
(* target writes to, address relative_base + d with the relative_base of   *)
(* the moment.  Addresses are non-negative.                                *)
(***************************************************************************)
\* parameter i of the instruction at the pointer is in RELATIVE mode
IsRelative(i) == DecimalDigit(WordAtPointer, 2 + i) = 2

\* the value the instruction at the pointer (opcode 1, 2, 3, 7 or 8) stores
ValueToStore ==
    IF OpcodeAhead = 3 THEN inputs[hist.inputs_done + 1] ELSE ValueToWrite

\* parameter i of the instruction at the pointer uses relative_base + d
UsesRelativeBase(i, value, integers_after) ==
    (IsRelative(i) /\ StoredParameter(i) + vm.relative_base >= 0) =>
        IF i \in SpecWriteTarget(OpcodeAhead)
        THEN /\ value = StoredParameter(i) + vm.relative_base
             /\ Get(integers_after, StoredParameter(i) + vm.relative_base) = ValueToStore
        ELSE value = Get(vm.integers, StoredParameter(i) + vm.relative_base)

C15_RelativeBase ==
    [][/\ (Executes(9) /\ pc' # "panicked" /\ Addressable(0)) =>
             vm'.relative_base = SignedWord(vm.relative_base + Operand(0))
       /\ ~Executes(9) => vm'.relative_base = vm.relative_base
       /\ vm'.relative_base = SignedWord(hist'.adjusted)
       /\ \A op \in ValidOpcodes :
             (/\ Executes(op)
              /\ pc' # "panicked"
              /\ \A i \in 0..(SpecParameterCount(op) - 1) : Addressable(i)) =>
                 \A i \in 0..(SpecParameterCount(op) - 1) :
                    UsesRelativeBase(i, parameters'[i + 1], vm'.integers)]_vars

\* 109,3,3,0,109,4,203,5,204,5,99: adjusted by 3 in the first call, by 4 in
\* the second, which then stored an input at 7 + 5 and read it from there
C15_Witness ==
    /\ pc = "idle"
    /\ calls = 2
    /\ image = <<109, 3, 3, 0, 109, 4, 203, 5, 204, 5, 99>>
    /\ hist.pre.relative_base = 3
    /\ vm.relative_base = 7
    /\ Get(vm.integers, 12) = 8
    /\ result = [kind |-> "Ok", output |-> <<8>>]

(***************************************************************************)
(* C16.  Reading a non-negative address that was never written and lies    *)
(* outside the loaded program image yields 0, and no read or write of a    *)
(* non-negative address makes execute fail: an instruction that decodes    *)
(* and whose arithmetic stays within the word neither returns a failure    *)
(* nor panics, wherever its parameters point.  hist.written is the set of  *)
(* addresses stored to since construction.                                 *)
(***************************************************************************)
\* a was never written and lies outside the image
Untouched(a) == a >= Len(image) /\ a \notin hist.written

\* read parameter i of the instruction at the pointer refers to such an address
ReadsUntouched(i) ==
    /\ i \notin SpecWriteTarget(OpcodeAhead)
    /\ DecimalDigit(WordAtPointer, 2 + i) # 1
    /\ Untouched(OperandAddress(i))

\* x is a signed integer of the word width
FitsWord(x) == x = SignedWord(x)

\* no sum or product the instruction at the pointer forms leaves the word
ArithmeticFits ==
    /\ \A i \in 0..(SpecParameterCount(OpcodeAhead) - 1) :
          IsRelative(i) => FitsWord(StoredParameter(i) + vm.relative_base)
    /\ OpcodeAhead = 1 => FitsWord(Operand(0) + Operand(1))
    /\ OpcodeAhead = 2 => FitsWord(Operand(0) * Operand(1))
    /\ OpcodeAhead = 9 => FitsWord(vm.relative_base + Operand(0))
    /\ IsAddress(vm.pointer + 1 + SpecParameterCount(OpcodeAhead))

C16_MemoryAccessNeverFails ==
    [][(/\ Running
        /\ WellFormed(WordAtPointer)
        /\ \A i \in 0..(SpecParameterCount(OpcodeAhead) - 1) : Addressable(i)) =>
           /\ \A i \in 0..(SpecParameterCount(OpcodeAhead) - 1) :
                 ReadsUntouched(i) => parameters'[i + 1] = 0
           /\ result'.kind # "Err"
           /\ ArithmeticFits => pc' # "panicked"
           /\ \A a \in DOMAIN vm'.integers :
                 (a >= Len(image) /\ a \notin hist'.written) => vm'.integers[a] = 0]_vars

\* 4,50,1101,1,2,60,4,60,99 has run to its halt: address 50, never written,
\* read as 0; address 60 was written and read back
C16_Witness ==
    /\ pc = "idle"
    /\ image = <<4, 50, 1101, 1, 2, 60, 4, 60, 99>>
    /\ vm.halted
    /\ result = [kind |-> "Ok", output |-> <<0, 3>>]
    /\ 50 \notin hist.written
    /\ 60 \in hist.written
    /\ 50 \in DOMAIN vm.integers

(***************************************************************************)
(* C17.  An instruction one of whose parameters resolves to a negative     *)
(* address (a POSITION parameter holding -1, a RELATIVE parameter whose    *)
(* offset plus relative_base is negative) makes execute fail with a fatal  *)
(* error instead of reading or writing a memory cell.  The program does    *)
(* otherwise: `as usize` turns the negative address a into a + 2^64 and    *)
(* the cell at that key is read or written.                                *)
(***************************************************************************)
\* a parameter of the instruction at the pointer refers to a negative address
NegativeAddressAhead ==
    /\ Running
    /\ WellFormed(WordAtPointer)
    /\ \E i \in 0..(SpecParameterCount(OpcodeAhead) - 1) : ~Addressable(i)

C17_NegativeAddressFails ==
    [][NegativeAddressAhead =>
          /\ \/ pc' = "idle" /\ result'.kind = "Err"
             \/ pc' = "panicked"
          /\ vm'.integers = vm.integers]_vars

(***************************************************************************)
(* C18.  When the word at the pointer fails to decode (unknown opcode or   *)
(* unknown mode digit) the execute call returns a failure at once: no      *)
(* effect of the word is applied (every address reads as before,           *)
(* relative_base and the input cursor are as before), no later instruction *)
(* is executed, halted stays false and the pointer is left at the          *)
(* undecodable word.                                                       *)
(***************************************************************************)
UndecodableAhead == Running /\ ~WellFormed(WordAtPointer)

C18_DecodeErrorReturnsAtOnce ==
    [][UndecodableAhead =>
          /\ pc' = "idle"
          /\ result' = [kind |-> "Err", output |-> <<>>]
          /\ ~vm.halted
          /\ ~vm'.halted
          /\ vm'.pointer = vm.pointer
          /\ Get(vm'.integers, vm'.pointer) = WordAtPointer
          /\ vm'.relative_base = vm.relative_base
          /\ SameReads(vm'.integers, vm.integers)
          /\ input_index' = input_index
          /\ hist'.inputs_done = hist.inputs_done
          /\ hist'.emitted = hist.emitted]_vars

\* 4,0,3,0,0 given one input: after an OUTPUT and an INPUT the call has
\* failed on the word 0 at address 4
C18_Witness ==
    /\ pc = "idle"
    /\ image = <<4, 0, 3, 0, 0>>
    /\ result.kind = "Err"
    /\ vm.pointer = 4
    /\ ~vm.halted
    /\ hist.inputs_done = 1
    /\ hist.emitted = <<4>>

(***************************************************************************)
(* C19.  Decode errors and input values.                                   *)
(***************************************************************************)
\* a fresh VM of the image, given the batch inp, runs to the HALT
HaltsOn(inp) ==
    execute(New(image), inp, overflow_checks, MaxSteps).kind = "Ok"
    /\ execute(New(image), inp, overflow_checks, MaxSteps).vm.halted

\* C19 as stated: a decode error arises only from a malformed program
\* image, never from input values: if some input sequence lets the VM run
\* to HALT without a decode error, no input sequence makes execute fail
\* with a decode error.
C19_DecodeErrorOnlyFromImage ==
    (pc = "idle" /\ result.kind = "Err") =>
        \A inp \in InputBatches : ~HaltsOn(inp)

\* C19 as amended: execute fails with a decode error exactly when the word
\* at the pointer is not a valid instruction word, whatever input values
\* the call was given; an INPUT never fails on the value it stores.
C19_DecodeErrorOnlyAtUndecodableWord ==
    [][/\ Running =>
             ((pc' = "idle" /\ result'.kind = "Err") <=> ~WellFormed(WordAtPointer))
       /\ Executes(3) => (pc' = "running" \/ pc' = "panicked")]_vars

\* 3,3,1105,0,6,0,99 given 0: the jump was not taken and the call has
\* failed on the data word 0 at address 5, while the same image given 8
\* runs to its HALT
C19_Witness ==
    /\ pc = "idle"
    /\ image = <<3, 3, 1105, 0, 6, 0, 99>>
    /\ calls = 1
    /\ inputs = <<0>>
    /\ result.kind = "Err"
    /\ vm.pointer = 5
    /\ HaltsOn(<<8>>)

(***************************************************************************)
(* C20.  The instruction executed at each step is decoded from the content *)
(* memory has at the pointer at that moment: a word written by an earlier  *)
(* ADD, MULTIPLY, INPUT, LESS-THAN or EQUALS is what is decoded and        *)
(* executed when the pointer reaches its address (in 1,1,1,4,99,5,6,0,99   *)
(* the ADD turns address 4 into a MULTIPLY, which is then executed).       *)
(***************************************************************************)
C20_DecodesCurrentMemory ==
    [][(Running /\ pc' # "panicked") =>
          /\ instruction'.ok = WellFormed(WordAtPointer)
          /\ WellFormed(WordAtPointer) =>
                /\ instruction'.opcode = OpcodeAhead
                /\ Len(instruction'.parameter_modes) = SpecParameterCount(OpcodeAhead)
                /\ \A i \in 0..(SpecParameterCount(OpcodeAhead) - 1) :
                      instruction'.parameter_modes[i + 1]
                          = SpecMode(DecimalDigit(WordAtPointer, 2 + i))
                /\ OpcodeAhead \in {4, 5, 6, 9, 99} =>
                      SameReads(vm'.integers, vm.integers)
                /\ OpcodeAhead = 99 => vm'.halted
                /\ OpcodeAhead # 99 => ~vm'.halted
                /\ OpcodeAhead = 4 => Len(output') = Len(output) + 1
                /\ OpcodeAhead # 4 => output' = output]_vars

\* 1,1,1,4,99,5,6,0,99: the MULTIPLY the ADD wrote at address 4, where the
\* image has a HALT, has been executed: 5 * 6 is at address 0
C20_Witness ==
    /\ pc = "running"
    /\ image = <<1, 1, 1, 4, 99, 5, 6, 0, 99>>
    /\ image[5] = 99
    /\ 4 \in hist.written
    /\ instruction.opcode = Mult
    /\ vm.pointer = 8
    /\ Get(vm.integers, 0) = 30

(***************************************************************************)
(* Vocabulary of the properties about two Intcode values of one caller.    *)
(***************************************************************************)
\* the step is one of a call running on vm: the caller neither clones,
\* constructs nor turns to its other value
ExecutesOnRunning == other.held /\ other' = other

\* the step makes a new copy of the original
ClonesOriginal == MakeClone \/ CloneAgain

SoloOf(h) == h.solo

\* the call on the running value has returned
Returned == pc = "idle" /\ result.kind \in {"Ok", "Err"}

ExactResult ==
    CASE OpcodeAhead = 1 -> Operand(0) + Operand(1)
      [] OpcodeAhead = 2 -> Operand(0) * Operand(1)
      [] OpcodeAhead = 9 -> vm.relative_base + Operand(0)
      [] OTHER -> 0

\* the instruction at the pointer is executed and its result leaves the
\* word, while the addresses it forms and the pointer it leaves do not
ResultOverflows ==
    /\ \E op \in {1, 2, 9} : Executes(op)
    /\ \A i \in 0..(SpecParameterCount(OpcodeAhead) - 1) :
          /\ Addressable(i)
          /\ IsRelative(i) => FitsWord(StoredParameter(i) + vm.relative_base)
    /\ IsAddress(vm.pointer + 1 + SpecParameterCount(OpcodeAhead))
    /\ ~FitsWord(ExactResult)

\* C23: a result of ADD, MULTIPLY or ADJUST-RELATIVE-BASE outside the word
\* wraps around (two's complement) and the call goes on without any error.
C23_OverflowWraps ==
    [][ResultOverflows =>
           /\ pc' = "running"
           /\ result'.kind # "Err"
           /\ OpcodeAhead = 9 => vm'.relative_base = SignedWord(ExactResult)
           /\ OpcodeAhead \in {1, 2} =>
                  Get(vm'.integers, OperandAddress(2)) = SignedWord(ExactResult)]_vars

\* the same in a build without overflow checks
C23_OverflowWrapsUnchecked ==
    [][(ResultOverflows /\ ~overflow_checks) =>
           /\ pc' = "running"
           /\ result'.kind # "Err"
           /\ OpcodeAhead = 9 => vm'.relative_base = SignedWord(ExactResult)
           /\ OpcodeAhead \in {1, 2} =>
                  Get(vm'.integers, OperandAddress(2)) = SignedWord(ExactResult)]_vars

(***************************************************************************)
(* Construction.                                                           *)
(***************************************************************************)
\* no execute call has been made on the constructed VM
Constructed == calls = 0 /\ pc = "idle" /\ ~other.held

\* C24: a VM constructed from an image of N integers holds the i-th integer
\* of the image at address i for 0 <= i < N, reads 0 at every other address,
\* and has pointer 0, relative_base 0 and halted false.
C24_ConstructedFromImage ==
    Constructed =>
        /\ \A i \in 0..(Len(image) - 1) :
              i \in DOMAIN vm.integers /\ vm.integers[i] = image[i + 1]
        /\ \A a \in (DOMAIN vm.integers \cup Len(image)..(Len(image) + 2)) :
              a >= Len(image) => Get(vm.integers, a) = 0
        /\ \A a \in DOMAIN vm.integers : IsAddress(a)
        /\ vm.pointer = 0
        /\ vm.relative_base = 0
        /\ vm.halted = FALSE

\* reads_intcode: the VM constructed from the 17 integers of input/test1.txt
C24_Witness ==
    /\ Constructed
    /\ image = <<3, 15, 3, 16, 1002, 16, 10, 16, 1, 16, 15, 15, 4, 15, 99, 0, 0>>
    /\ vm.integers[4] = 1002
    /\ vm.integers[16] = 0

(***************************************************************************)
(* What an instruction may change.                                         *)
(***************************************************************************)
\* the addresses whose value read differs after the step
ChangedAddresses ==
    {a \in DOMAIN vm.integers \cup DOMAIN vm'.integers :
        Get(vm'.integers, a) # Get(vm.integers, a)}

\* the write target of the instruction at the pointer
TargetAddress == OperandAddress(IF OpcodeAhead = 3 THEN 0 ELSE 2)

\* C27: an executed instruction changes only what its opcode owns: ADD,
\* MULTIPLY, INPUT, LESS-THAN and EQUALS change the value read at one address
\* at most, their write target, and besides it only the pointer; OUTPUT and
\* the jumps change no value of the memory; relative_base changes only by
\* ADJUST-RELATIVE-BASE; halted changes only by HALT, which changes neither
\* the pointer nor a value of the memory.
C27_InstructionChangesOnlyItsOwn ==
    [][ /\ \A op \in ValidOpcodes :
              (Executes(op) /\ pc' # "panicked") =>
                 /\ op \in {1, 2, 3, 7, 8} =>
                       /\ Cardinality(ChangedAddresses) <= 1
                       /\ IsAddress(TargetAddress) => ChangedAddresses \subseteq {TargetAddress}
                 /\ op \in {4, 5, 6, 9, 99} => ChangedAddresses = {}
                 /\ op # 9 => vm'.relative_base = vm.relative_base
                 /\ op # 99 => vm'.halted = vm.halted
                 /\ op = 99 => vm'.pointer = vm.pointer
        /\ vm'.relative_base # vm.relative_base => Executes(9)
        /\ vm'.halted # vm.halted => Executes(99) ]_vars

\* 3,9,8,9,10,9,4,9,99,-1,8 on input 0: the EQUALS has stored 0 at address 9
\* and no other address reads another value than after the INPUT
C27_Witness ==
    /\ pc = "running"
    /\ image = <<3, 9, 8, 9, 10, 9, 4, 9, 99, -1, 8>>
    /\ instruction.opcode = Equals
    /\ steps = 2
    /\ vm.integers = [New(image).integers EXCEPT ![9] = 0]
    /\ vm.pointer = 6

(***************************************************************************)
(* Calls on a VM whose last call failed.                                   *)
(***************************************************************************)
\* the call before the present one returned a decode error
AfterFailedCall == hist.pre_why = "err" /\ pc \in {"running", "idle"}

\* C28: a decode error is sticky: once a call has returned a failure, every
\* later call on the VM, whatever its inputs, executes no instruction,
\* returns a failure again and leaves memory, pointer, relative_base and
\* halted as they were.
C28_DecodeErrorIsSticky ==
    AfterFailedCall =>
        /\ pc = "running" => steps = 0
        /\ pc = "idle" => (result = [kind |-> "Err", output |-> <<>>] /\ steps = 1)
        /\ hist.inputs_done = 0
        /\ hist.emitted = <<>>
        /\ vm.pointer = hist.pre.pointer
        /\ vm.relative_base = hist.pre.relative_base
        /\ vm.halted = hist.pre.halted
        /\ SameReads(vm.integers, hist.pre.integers)

\* 4,0,3,0,0: the first call failed after an OUTPUT and an INPUT, the second
\* and the third, given an input, have failed as well
C28_Witness ==
    /\ image = <<4, 0, 3, 0, 0>>
    /\ calls = 3
    /\ AfterFailedCall
    /\ pc = "idle"
    /\ hist.why = "err"
    /\ inputs # <<>>
    /\ vm.pointer = 4

(***************************************************************************)
(* What a failed call leaves behind.                                       *)
(***************************************************************************)
\* the present call has returned a decode error after executing instructions
FailedAfterInstructions == pc = "idle" /\ hist.why = "err" /\ steps > 1

\* C29: when a call fails with a decode error after executing instructions,
\* what those instructions did to memory, pointer and relative_base, the
\* inputs they stored included, stays in the VM, while the values their
\* OUTPUTs produced are returned neither by that call nor by a later one.
C29_FailedCallKeepsEffectsDropsOutput ==
    /\ FailedAfterInstructions =>
          /\ vm.pointer = hist.last.pointer
          /\ vm.relative_base = hist.last.relative_base
          /\ vm.halted = hist.last.halted
          /\ SameReads(vm.integers, hist.last.integers)
          /\ input_index = hist.inputs_done
          /\ result = [kind |-> "Err", output |-> <<>>]
    /\ (AfterFailedCall /\ pc = "idle") => result.output = <<>>

\* 4,0,3,0,0 given the input 8: the call has failed at address 4; the 8 it
\* stored at address 0 is in memory, the 4 its OUTPUT produced is not returned
C29_Witness ==
    /\ image = <<4, 0, 3, 0, 0>>
    /\ FailedAfterInstructions
    /\ hist.emitted = <<4>>
    /\ hist.inputs_done = 1
    /\ Get(vm.integers, 0) = 8
    /\ vm.pointer = 4
    /\ vm # hist.pre
    /\ result.output = <<>>

(***************************************************************************)
(* The four interpreters on programs of position-mode ADD, MULTIPLY, HALT. *)
(***************************************************************************)
\* the value fits the 32-bit integer of the older interpreters
Fits32(x) == x >= I32Min /\ x <= I32Max

\* address a lies inside an image of n integers
Inside(n, a) == a >= 0 /\ a < n

\* a run, from the pointer on, of a program of the words 1, 2 and 99 read in
\* position mode: ok when every word executed is 1, 2 or 99, every address
\* read or written lies inside the image, every sum and product fits 32
\* bits and the program comes to a 99; integers is the memory it leaves
RECURSIVE PositionModeRun(_, _, _)
PositionModeRun(integers, pointer, fuel) ==
    IF fuel = 0 \/ ~Inside(Len(integers), pointer)
    THEN [ok |-> FALSE, integers |-> integers]
    ELSE IF integers[pointer + 1] = 99
    THEN [ok |-> TRUE, integers |-> integers]
    ELSE IF \/ integers[pointer + 1] \notin {1, 2}
            \/ ~Inside(Len(integers), pointer + 3)
            \/ \E i \in 1..3 : ~Inside(Len(integers), integers[pointer + 1 + i])
    THEN [ok |-> FALSE, integers |-> integers]
    ELSE IF ~Fits32(IF integers[pointer + 1] = 1
                    THEN integers[integers[pointer + 2] + 1]
                         + integers[integers[pointer + 3] + 1]
                    ELSE integers[integers[pointer + 2] + 1]
                         * integers[integers[pointer + 3] + 1])
    THEN [ok |-> FALSE, integers |-> integers]
    ELSE PositionModeRun(
             [integers EXCEPT ![integers[pointer + 4] + 1] =
                 IF integers[pointer + 1] = 1
                 THEN integers[integers[pointer + 2] + 1]
                      + integers[integers[pointer + 3] + 1]
                 ELSE integers[integers[pointer + 2] + 1]
                      * integers[integers[pointer + 3] + 1]],
             pointer + 4, fuel - 1)

\* the image is such a program
PositionModeProgram ==
    /\ \A i \in 1..Len(image) : Fits32(image[i])
    /\ PositionModeRun(image, 0, MaxSteps).ok

\* all four interpreters have run the image
AllRan == versions.ran = {2, 5, 7, 13}

\* the memory of day13's VM over the addresses of the image, as a Vec
Day13Memory ==
    [i \in 1..Len(image) |-> Get(versions.day13.vm.integers, i - 1)]

\* C30: on a program made only of position-mode ADD (1), MULTIPLY (2) and
\* HALT (99) whose addresses stay inside the image and whose values stay
\* inside the 32-bit range, run_intcode of day2 and Intcode::execute of day5,
\* day7 and day13 all terminate, with the same final contents of memory.
C30_InterpretersAgree ==
    (AllRan /\ PositionModeProgram) =>
        /\ versions.day2.kind = "Ok"
        /\ versions.day5.kind = "Ok"
        /\ versions.day7.kind = "Ok"
        /\ versions.day13.kind = "Ok"
        /\ versions.day13.vm.halted
        /\ versions.day5.integers = versions.day2.integers
        /\ versions.day7.integers = versions.day2.integers
        /\ Day13Memory = versions.day2.integers
        /\ DOMAIN versions.day13.vm.integers = 0..(Len(image) - 1)

\* runs_intcodes of day2: all four have turned 1,1,1,4,99,5,6,0,99 into
\* 30,1,1,4,2,5,6,0,99
C30_Witness ==
    /\ AllRan
    /\ PositionModeProgram
    /\ image = <<1, 1, 1, 4, 99, 5, 6, 0, 99>>
    /\ versions.day2.integers = <<30, 1, 1, 4, 2, 5, 6, 0, 99>>
    /\ Day13Memory = <<30, 1, 1, 4, 2, 5, 6, 0, 99>>

(***************************************************************************)
(* The amplification circuit.                                              *)
(***************************************************************************)
\* execute_circuit has returned: the amplifier calls it made, in order
CircuitReturned == circuit.built /\ circuit.last.returned

\* the calls of an execute_circuit form rounds over the amplifiers in index
\* order, the signal goes to amplifier 0 and every later call is given the
\* first output of the call before it as its single input
RoundsChain(rounds, signal) ==
    /\ \A k \in 1..Len(rounds) : rounds[k].amp = (k - 1) % AmplifierCount
    /\ rounds # <<>> => rounds[1].fed = <<signal>>
    /\ \A k \in 2..Len(rounds) : rounds[k].fed = <<rounds[k - 1].out[1]>>

\* the calls end with the first round in which amplifier 4 has halted
EndsWhenAmplifier4Halted(rounds) ==
    /\ rounds # <<>>
    /\ Len(rounds) % AmplifierCount = 0
    /\ rounds[Len(rounds)].halted
    /\ \A k \in 1..(Len(rounds) - 1) :
          rounds[k].amp = AmplifierCount - 1 => ~rounds[k].halted

\* C25 as stated: execute_circuit(signal), after set_phase_settings, runs the
\* amplifiers in index order in rounds, the signal to amplifier 0, the first
\* output of each amplifier the single input of the next, amplifier 4's
\* output back to amplifier 0 in the next round; no round is begun after one
\* in which amplifier 4 has halted, and what it returns is amplifier 4's
\* output of the first round in which amplifier 4 has halted.
C25_ExecuteCircuitRunsRounds ==
    /\ circuit.built /\ circuit.at \in {"while", "for"} =>
          /\ RoundsChain(circuit.rounds, circuit.input_signal)
          /\ \A k \in 1..Len(circuit.rounds) :
                circuit.rounds[k].amp = AmplifierCount - 1 /\ circuit.rounds[k].halted
                    => k = Len(circuit.rounds) /\ circuit.at = "while"
    /\ CircuitReturned =>
          /\ RoundsChain(circuit.last.rounds, circuit.input_signal)
          /\ EndsWhenAmplifier4Halted(circuit.last.rounds)
          /\ circuit.last.value = circuit.last.rounds[Len(circuit.last.rounds)].out[1]

\* C25 amended: the same, unless amplifier 4 has halted already while it was
\* given its phase value: then no amplifier is run and execute_circuit
\* returns the signal itself.
C25_ExecuteCircuitRunsRoundsUnlessHalted ==
    /\ circuit.built /\ circuit.at \in {"while", "for"} =>
          /\ RoundsChain(circuit.rounds, circuit.input_signal)
          /\ circuit.entered_halted => circuit.rounds = <<>> /\ circuit.at = "while"
          /\ \A k \in 1..Len(circuit.rounds) :
                circuit.rounds[k].amp = AmplifierCount - 1 /\ circuit.rounds[k].halted
                    => k = Len(circuit.rounds) /\ circuit.at = "while"
    /\ CircuitReturned /\ ~circuit.last.entered_halted =>
          /\ RoundsChain(circuit.last.rounds, circuit.input_signal)
          /\ EndsWhenAmplifier4Halted(circuit.last.rounds)
          /\ circuit.last.value = circuit.last.rounds[Len(circuit.last.rounds)].out[1]
    /\ CircuitReturned /\ circuit.last.entered_halted =>
          /\ circuit.last.rounds = <<>>
          /\ circuit.last.value = circuit.input_signal

\* execute_circuit has returned after two rounds, amplifier 4's output of the
\* first round fed back to amplifier 0
C25_Witness ==
    /\ CircuitReturned
    /\ ~circuit.last.entered_halted
    /\ Len(circuit.last.rounds) = 2 * AmplifierCount
    /\ circuit.last.rounds[AmplifierCount + 1].fed
          = <<circuit.last.rounds[AmplifierCount].out[1]>>
    /\ circuit.last.value # circuit.input_signal

\* p is a permutation of the options, which are distinct
IsPermutation(p, options) ==
    /\ Len(p) = Len(options)
    /\ {p[k] : k \in 1..Len(p)} = {options[k] : k \in 1..Len(options)}

\* C26 as stated: find_max_output(signal, options) returns the largest
\* execute_circuit result over all permutations of the five phase setting
\* options, and every permutation is evaluated on amplifiers that all start
\* from the pristine program.
C26_FindMaxOutputReturnsLargest ==
    /\ circuit.built /\ circuit.at = "set_phase_settings" /\ circuit.index = 0 =>
          \A k \in 1..AmplifierCount : circuit.amplifiers[k] = New(image)
    /\ circuit.built /\ circuit.at = "returned" =>
          /\ \A k \in 1..Len(circuit.outputs) :
                IsPermutation(circuit.outputs[k].permutation, circuit.options)
          /\ Cardinality({circuit.outputs[k].permutation : k \in 1..Len(circuit.outputs)})
                = 120
          /\ \E k \in 1..Len(circuit.outputs) :
                circuit.outputs[k].output = circuit.result.value
          /\ \A k \in 1..Len(circuit.outputs) :
                circuit.outputs[k].output <= circuit.result.value

====
